---- MODULE Spec2Model ----
(***************************************************************************)
(* Model of recorder-transcriber-server.                                   *)
(*                                                                         *)
(* Spec         : ListenerService (services/listening.py) on its asyncio   *)
(*                event loop: start(), stop(), the _run task and the calls *)
(*                it hands to worker threads with asyncio.to_thread.       *)
(* SpecRecorder : RecorderService (services/recording.py): threads calling *)
(*                start_recording / stop_recording under self._lock, and   *)
(*                the recorder-capture thread.                             *)
(*                                                                         *)
(* Both read the audio hub through ports/audiostream.py: a subscription    *)
(* receives the frames captured after it was made, in order; frames are    *)
(* named by their sequence number.                                         *)
(*                                                                         *)
(* An await of asyncio.to_thread is two steps of the task: the step that   *)
(* dispatches the call and the step that resumes the task with the call's  *)
(* outcome.  Everything between two awaits is one atomic step of the event *)
(* loop.  stop() is called as api/main_router.py calls it, on a listener   *)
(* whose is_listening is true, by one caller at a time.                    *)
(***************************************************************************)
EXTENDS Integers, Sequences, FiniteSets, TLC

\* ---------------------------------------------------------------- bounds
MaxSess == 3                  \* listener sessions started
MaxSeq == 4                   \* frames the hub produces
MaxSeqLong == 7               \* ... while the first session is the only one
MaxCallers == 2               \* threads calling the recorder
MaxRec == 2                   \* recorder sessions started
MaxVadCalls == 4              \* calls of the VAD adapter
MaxSessEvents == 2            \* listener sessions whose events() is followed
MaxSeqEvents == 4             \* frames the hub produces for them
MaxSessWs == 2                \* listener sessions whose connection is followed
MaxSeqWs == 2                 \* frames the hub produces for them
MaxSubs == 2                  \* subscribers of the hub
MaxFrames == 2                \* largest max_frames a subscriber asks for
MaxHubSeq == 5                \* frames the hub's producer makes
MaxSaves == 3                 \* files the encoder writes for one object after the other
MaxSessFresh == 4             \* listener sessions started, with few frames
MaxSeqFresh == 4              \* frames the hub produces for them
QuietSess == 2                \* ... none of them before this many sessions were started
MaxOrchCallers == 2           \* threads calling the orchestrator

\* ------------------------------------------------- the listener's config
\* the buffer sizes _run computes from ListenerConfig and the audio format
\* (vad_speech_pad_ms = 30, the default, gives pre_roll_max = 5 at fewer
\* than 34 frames a second), and the armed timeout in ticks of the clock
pre_roll_max == 5
hangover_max == 2
max_utterance_frames == 4
armed_timeout_seconds == 1

Sess == 1..MaxSessFresh

Min(a, b) == IF a < b THEN a ELSE b
Max(a, b) == IF a > b THEN a ELSE b

\* last n elements of a sequence
LastN(s, n) == SubSeq(s, Len(s) - n + 1, Len(s))

\* elements of a sequence
Range(s) == {s[i] : i \in 1..Len(s)}

RECURSIVE Concatenate(_)
\* np.concatenate(arrays): the arrays' contents one after the other
Concatenate(arrays) ==
    IF arrays = <<>> THEN <<>> ELSE Head(arrays) \o Concatenate(Tail(arrays))

VARIABLES
    \* ListenerService fields
    running,        \* _running
    state,          \* _state
    readerRef,      \* _reader: 0 = None, else the subscription of that session
    taskRef,        \* _task: 0 = None, else the task of that session
    evq,            \* _event_queue: events put on the current queue, oldest first
    cur,            \* number of sessions started (id of the newest one)
    hasPorts,       \* storage is not None and stt is not None
    \* the _run tasks, one per session: position, locals, pending call
    tasks,
    \* collaborators
    hubRunning,     \* stream.is_running()
    seq,            \* last sequence number the hub produced
    readers,        \* the hub's subscriptions named "listener"
    wakeDirty,      \* wake detector fed since its last reset()
    vadDirty,       \* VAD fed since its last reset()
    \* a caller inside stop()
    stopPc, stopTask, stopSess,
    \* observations
    stopped,        \* sessions whose stop() has returned
    armedAge,       \* ticks since _state became ARMED, -1 when it is not
    \* RecorderService fields
    lock,           \* _lock: 0 = free, else the calling thread that holds it
    session,        \* _session: 0 = None, else the number of the session
    recReader,      \* _reader: 0 = None, else a "recorder" subscription
    thread,         \* _thread: 0 = None, else a capture thread
    stopEvent,      \* _stop.is_set()
    chunks,         \* _chunks
    recCur,         \* recorder sessions created so far
    recSubs,        \* the hub's subscriptions named "recorder"
    captures,       \* the recorder-capture threads, one per session
    calls,          \* the threads calling start_recording / stop_recording
    \* SileroVadAdapter fields and the call of process() in progress
    buffer,         \* _buffer: the arrays held, oldest first
    buffer_samples, \* _buffer_samples
    last_event,     \* last_event of the call in progress
    vadPc,          \* "idle", or "loop": process() is at its for loop
    returned,       \* what the last call of process() returned
    \* observations of the adapter
    nextSample,     \* number of the next sample a frame will bring
    firstSample,    \* number of the first sample fed since the last reset()
    invoked,        \* chunks handed to the detector since the last reset()
    chunkEvents,    \* what the detector said for each chunk of the last call
    vadCalls,       \* calls of process() and reset() made
    \* the websocket handlers iterating events(), one per session started
    consumers,
    taken,          \* events of the current queue that a get() has removed
    \* the storage adapter and the recorder's registry
    paths,          \* files written by save_recording (rec-<uuid4>, all different)
    recordings,     \* RecorderService._recordings: recording id -> Recording
    \* the stream hub
    hubSeq,         \* sequence number of the last frame the producer made
    hubSubs,        \* the subscribers: capacity, queue, and what they were given
    fanout,         \* subscribers the frame being fanned out is still to be offered to
    \* a Recording object and the last operation on it
    recording,      \* the object's fields
    raised,         \* what the last operation raised, "None" when it returned
    prior,          \* the object before the last operation
    \* worker threads of asyncio.to_thread
    orphans,        \* detector calls still running in a worker thread whose
                    \* task was cancelled: <<detector, session>>
    sizes,          \* the settings _run was started with and its buffer sizes
    \* OrchestratorService: its fields, its thread and its callers
    orch

lvars == <<running, state, readerRef, taskRef, evq, cur, hasPorts, tasks,
           hubRunning, seq, readers, wakeDirty, vadDirty,
           stopPc, stopTask, stopSess, stopped, armedAge>>

rvars == <<lock, session, recReader, thread, stopEvent, chunks, recCur,
           recSubs, captures, calls>>

avars == <<buffer, buffer_samples, last_event, vadPc, returned,
           nextSample, firstSample, invoked, chunkEvents, vadCalls>>

cvars == <<consumers, taken>>

svars == <<paths, recordings>>

hvars == <<hubSeq, hubSubs, fanout>>

dvars == <<recording, raised, prior>>

wvars == <<orphans, sizes, orch>>

vars == <<lvars, rvars, avars, cvars, svars, hvars, dvars, wvars>>

Done == {"cancelled", "failed", "finished"}

\* locals of a task that does not exist yet
NoTask == [pc |-> "none", creq |-> FALSE, rd |-> 0, frame |-> 0,
           pre |-> <<>>, utt |-> <<>>, hang |-> <<>>,
           \* time.monotonic() - armed_start_time in ticks, -1 when
           \* armed_start_time is None
           armedFor |-> -1,
           ended |-> FALSE,
           \* observations of the current episode: the frames handled in
           \* ARMED; whether the VAD has so far reported nothing but one
           \* speech_start and then at most one speech_end; how many
           \* LISTENING frames came before that speech_end; and what
           \* triggered the finalization in flight
           seen |-> <<>>, eok |-> FALSE, en |-> 0, trig |-> "-",
           \* frames this loop has handled in LISTENING one after the other
           ln |-> 0,
           \* frames the loop held when start() was last called
           carried |-> {},
           \* `persisted`: the path of the recording save_recording returned,
           \* 0 when there is none
           persisted |-> 0]

NoReader == [open |-> FALSE, pos |-> 0]

\* threads that call the recorder
Callers == 1..MaxCallers

\* recorder sessions
Recs == 1..MaxRec

\* a caller outside any call, with no locals
NoCall == [pc |-> "idle", thread |-> 0, reader |-> 0, chunks |-> <<>>,
           \* observations: the session that was active when stop_recording
           \* was called, and whether join() found the thread ended
           sess |-> 0, joined |-> FALSE]

\* a capture thread that does not exist or has ended
NoCapture == [pc |-> "none", rd |-> 0, frame |-> 0,
              \* observations: the frames the thread has read, in order,
              \* and whether a join() on it has timed out
              got |-> <<>>, late |-> FALSE]

\* no handler is iterating events(): `queue` is the number of the queue
\* its get() waits on, `last` the queue and the place in it of the event it
\* was yielded last
NoConsumer == [pc |-> "none", queue |-> 0, last |-> <<0, 0>>,
               \* a {"action": "stop"} message of the client waits to be
               \* received, and what the handler answered to it
               inbox |-> FALSE, reply |-> "-"]

\* the threads calling the orchestrator; the orchestrator thread is named
\* by the next number, and 0 is nobody
OrchCallers == 1..MaxOrchCallers
RunId == MaxOrchCallers + 1

\* a thread that is not inside a call of the orchestrator
NoOrchCall == [pc |-> "idle", op |-> "-"]

\* an OrchestratorService after construction (lines 76-84): _lock free,
\* _thread None, _stop clear, _phase "idle"; no orchestrator thread
NoOrch == [lock |-> 0, thread |-> FALSE, stop |-> FALSE, phase |-> "idle",
           run |-> [pc |-> "none", next |-> "-"],
           calls |-> [c \in OrchCallers |-> NoOrchCall]]

\* _run has computed no buffer sizes
NoSizes == [sample_rate |-> 0, blocksize |-> 0, pad_ms |-> 0, hangover_ms |-> 0,
            seconds |-> 0, pre |-> 0, hang |-> 0, utt |-> 0]

\* Recording.data is None
NoData == <<>>

\* no Recording object has been made; an object has `data`, NoData or the
\* shape of its ndarray, `path`, 0 for None, and `channels`
NoRecording == [made |-> FALSE, data |-> NoData, path |-> 0, channels |-> 0]

\* subscribers of the hub
Subs == 1..MaxSubs

\* capacities a subscriber may ask for
Capacities == 1..MaxFrames

\* a subscriber that does not exist: `st` is "none", "live", "closed" (its
\* reader was closed) or "removed" (a fan-out has dropped it from the list)
NoSub == [st |-> "none", max_frames |-> 0, queue |-> <<>>,
          \* observations: the frames read() has returned, in order; the
          \* sequence number current when it subscribed; the last frame it
          \* was offered; the frames its queue has discarded
          got |-> <<>>, since |-> 0, last |-> 0, drops |-> 0]

\* a task that has ended: its locals are gone
Ended(how) == [NoTask EXCEPT !.pc = how]


Init ==
    /\ running = FALSE /\ state = "IDLE" /\ readerRef = 0 /\ taskRef = 0
    /\ evq = <<>> /\ cur = 0
    /\ hasPorts \in BOOLEAN
    /\ tasks = [s \in Sess |-> NoTask]
    /\ hubRunning \in BOOLEAN
    /\ seq = 0
    /\ readers = [s \in Sess |-> NoReader]
    /\ wakeDirty = FALSE /\ vadDirty = FALSE
    /\ stopPc = "idle" /\ stopTask = 0 /\ stopSess = 0
    /\ stopped = {}
    /\ armedAge = -1
    /\ lock = 0 /\ session = 0 /\ recReader = 0 /\ thread = 0
    /\ stopEvent = FALSE /\ chunks = <<>> /\ recCur = 0
    /\ recSubs = [s \in Recs |-> NoReader]
    /\ captures = [s \in Recs |-> NoCapture]
    /\ calls = [c \in Callers |-> NoCall]
    /\ buffer = <<>> /\ buffer_samples = 0
    /\ last_event = "none" /\ vadPc = "idle" /\ returned = "none"
    /\ nextSample = 1 /\ firstSample = 1
    /\ invoked = <<>> /\ chunkEvents = <<>> /\ vadCalls = 0
    /\ consumers = [s \in Sess |-> NoConsumer]
    /\ taken = {}
    /\ paths = 0
    /\ recordings = <<>>
    /\ hubSeq = 0
    /\ hubSubs = [k \in Subs |-> NoSub]
    /\ fanout = {}
    /\ recording = NoRecording /\ raised = "None" /\ prior = NoRecording
    /\ orphans = {}
    /\ sizes = NoSizes
    /\ orch = NoOrch


\* ------------------------------------------------------------- events
StateChange(t, s) == [type |-> "state_change", state |-> s, sess |-> t]
ErrorEv(t) == [type |-> "error", state |-> "-", sess |-> t]
ResultEv(t) == [type |-> "result", state |-> "-", sess |-> t]

\* _set_state: the event it emits when called with the state at `old`
SetStateEvents(old, new, t) ==
    IF old # new THEN <<StateChange(t, new)>> ELSE <<>>

\* the age of the ARMED state after an assignment of _state
AgeAfter(old, new) ==
    IF new # "ARMED" THEN -1 ELSE IF old = "ARMED" THEN armedAge ELSE 0

\* pre_roll_frames.append(frame); pop(0) when longer than pre_roll_max
PushPreRoll(pre, f) ==
    LET a == Append(pre, f)
    IN  IF Len(a) > pre_roll_max THEN Tail(a) ELSE a

\* a failure that is swallowed
ProcessFailSilent(t) == <<>>

\* events _process_utterance emits when save_recording or
\* transcribe_recording raised
ProcessFailEvents(t) == <<ErrorEv(t)>>

\* events _process_utterance emits when both calls returned
ProcessOkEvents(t) == <<ResultEv(t)>>

\* ------------------------------------------------ the task's next await
\* frames the hub produces in the run: more when one session has them all
FrameLimit == IF cur = 1 THEN MaxSeqLong ELSE MaxSeq

\* what reader.read(0.1) can return: None (timeout, closed reader, stopped
\* hub) or the next frame of an open subscription
ReadOutcomes(r) ==
    {0} \cup (IF r # 0 /\ readers[r].open /\ hubRunning /\ readers[r].pos < FrameLimit
              THEN {readers[r].pos + 1} ELSE {})

\* back at `while self._running`: leave the loop, or hand reader.read to a
\* worker thread (what the thread fetches is decided when it runs)
LoopTop(t, loc) ==
    IF ~running
    THEN /\ tasks' = [tasks EXCEPT ![t] = Ended("finished")]
         /\ UNCHANGED <<readers, seq>>
    ELSE \E f \in ReadOutcomes(loc.rd) :
         /\ tasks' = [tasks EXCEPT ![t] = [loc EXCEPT !.pc = "read", !.frame = f]]
         /\ readers' = IF f = 0 THEN readers
                       ELSE [readers EXCEPT ![loc.rd].pos = f]
         /\ seq' = Max(seq, f)

\* await asyncio.to_thread(call): the task waits at `pc` for the call
Dispatch(t, loc, pc) ==
    /\ tasks' = [tasks EXCEPT ![t] = [loc EXCEPT !.pc = pc]]
    /\ UNCHANGED <<readers, seq>>

\* a task step may run: the task is alive and no cancel() is pending on it
CanRun(t) == tasks[t].pc \notin (Done \cup {"none"}) /\ ~tasks[t].creq

\* The event loop's ready queue is first in, first out.  While a caller is
\* suspended in stop() at `await self._task` (stopPc = "await", then "wake"
\* once the awaited task has ended and the caller's wakeup is queued):
\*  - the first step of a task created by a start() in between is queued
\*    behind the cancelled task's step, and behind the caller's wakeup too
\*    when it was created after the cancelled task ended (pc = "queued");
\*  - a worker thread's result for such a task is queued behind the wakeup.
CanResume(t) ==
    CanRun(t) /\ ~(stopPc # "idle" /\ t = taskRef /\ t # stopTask)

TaskFrame ==
    UNCHANGED <<running, readerRef, taskRef, cur, hasPorts, hubRunning,
                stopPc, stopTask, stopSess, stopped, rvars, avars, cvars, hvars, dvars, wvars,
                recordings>>

\* the frames a loop holds: the one it has read and those in its buffers
Held(loc) ==
    ({loc.frame} \ {0}) \cup Range(loc.pre) \cup Range(loc.utt) \cup Range(loc.hang)

\* ------------------------------------------------------------ start()
\* start() succeeds (lines 77-88), while fewer than `sessions` were started
StartAs(sessions) ==
    /\ ~running /\ hubRunning /\ cur < sessions
    /\ running' = TRUE
    /\ state' = "IDLE"
    /\ armedAge' = AgeAfter(state, "IDLE")
    /\ cur' = cur + 1
    /\ readerRef' = cur + 1
    /\ readers' = [readers EXCEPT ![cur + 1] = [open |-> TRUE, pos |-> seq]]
    /\ evq' = <<>>
    /\ taskRef' = cur + 1
    /\ tasks' = [t \in Sess |->
                    IF t = cur + 1
                    THEN [NoTask EXCEPT !.pc = IF stopPc = "wake" THEN "queued"
                                               ELSE "begin"]
                    ELSE [tasks[t] EXCEPT !.carried = Held(tasks[t])]]
    /\ consumers' = [consumers EXCEPT ![cur + 1] = [NoConsumer EXCEPT !.pc = "send"]]
    /\ taken' = {}
    /\ UNCHANGED <<hasPorts, hubRunning, seq, wakeDirty, vadDirty,
                   stopPc, stopTask, stopSess, stopped>>
    /\ UNCHANGED <<rvars, avars, svars, hvars, dvars, wvars>>

\* start() for MaxSess sessions
Start == StartAs(MaxSess)

\* start() raises RuntimeError (lines 77-80) and changes nothing
StartRejected ==
    /\ running \/ ~hubRunning
    /\ UNCHANGED vars

\* ------------------------------------------------------------- stop()
\* lines 103-112: close the reader, state = IDLE, reset both detectors
StopTail ==
    /\ readers' = IF readerRef = 0 THEN readers
                  ELSE [readers EXCEPT ![readerRef] = NoReader]
    /\ readerRef' = 0
    /\ state' = "IDLE"
    /\ armedAge' = AgeAfter(state, "IDLE")
    /\ wakeDirty' = FALSE
    /\ vadDirty' = FALSE

\* stop() with no task to wait for: the whole call is one step; `cs` is
\* what the websocket handlers are at after it
StopNoTaskAs(cs) ==
    /\ running /\ stopPc = "idle"
    /\ IF taskRef = 0 THEN TRUE ELSE tasks[taskRef].pc \in {"cancelled", "finished"}
    /\ running' = FALSE
    /\ taskRef' = 0
    /\ StopTail
    /\ stopped' = stopped \cup {cur}
    /\ UNCHANGED <<evq, cur, hasPorts, tasks, hubRunning, seq,
                   stopPc, stopTask, stopSess>>
    /\ consumers' = cs /\ UNCHANGED taken
    /\ UNCHANGED <<rvars, avars, svars, hvars, dvars, wvars>>

\* stop() called by anyone but a handler that is followed
StopNoTask == StopNoTaskAs(consumers)

\* stop() when the task has ended with an exception: `await self._task`
\* re-raises it, and only CancelledError is caught (lines 97-100)
StopRaisesAs(cs) ==
    /\ running /\ stopPc = "idle"
    /\ taskRef # 0 /\ tasks[taskRef].pc = "failed"
    /\ running' = FALSE
    /\ UNCHANGED <<state, armedAge, readerRef, taskRef, evq, cur, hasPorts, tasks,
                   hubRunning, seq, readers, wakeDirty, vadDirty,
                   stopPc, stopTask, stopSess, stopped>>
    /\ consumers' = cs /\ UNCHANGED taken
    /\ UNCHANGED <<rvars, avars, svars, hvars, dvars, wvars>>

StopRaises == StopRaisesAs(consumers)

\* stop() up to `await self._task` on a task that is alive
StopBeginAs(cs) ==
    /\ running /\ stopPc = "idle"
    /\ taskRef # 0 /\ tasks[taskRef].pc \notin Done
    /\ running' = FALSE
    /\ tasks' = [tasks EXCEPT ![taskRef].creq = TRUE]
    /\ stopPc' = "await" /\ stopTask' = taskRef /\ stopSess' = cur
    /\ UNCHANGED <<state, armedAge, readerRef, taskRef, evq, cur, hasPorts,
                   hubRunning, seq, readers, wakeDirty, vadDirty, stopped>>
    /\ consumers' = cs /\ UNCHANGED taken
    /\ UNCHANGED <<rvars, avars, svars, hvars, dvars, wvars>>

StopBegin == StopBeginAs(consumers)

\* the detector call that task t awaits in a worker thread: cancelling the
\* task ends the await, the thread runs the call to its end
Orphaned(t) ==
    IF tasks[t].pc = "detect" THEN {<<"wake", t>>}
    ELSE IF tasks[t].pc \in {"vadA", "vadL"} THEN {<<"vad", t>>}
    ELSE {}

\* the cancelled task's next step raises CancelledError out of _run
TaskCancelled(t) ==
    /\ tasks[t].creq /\ tasks[t].pc \notin (Done \cup {"none"})
    /\ tasks' = [tasks EXCEPT ![t] = Ended("cancelled")]
    /\ stopPc' = "wake"
    /\ orphans' = orphans \cup Orphaned(t)
    /\ UNCHANGED <<sizes, orch>>
    /\ UNCHANGED <<running, state, armedAge, readerRef, taskRef, evq, cur, hasPorts,
                   hubRunning, seq, readers, wakeDirty, vadDirty,
                   stopTask, stopSess, stopped>>
    /\ UNCHANGED <<rvars, avars, cvars, hvars, dvars, svars>>

\* the detector call of a cancelled task comes to its end in its worker
\* thread; nobody waits for the result
WorkerReturns(o) ==
    /\ o \in orphans
    /\ orphans' = orphans \ {o}
    /\ UNCHANGED <<sizes, orch>>
    /\ UNCHANGED <<lvars, rvars, avars, cvars, hvars, dvars, svars>>

\* stop() resumed after the awaited task ended
StopFinishAs(cs) ==
    /\ stopPc = "wake"
    /\ \A t \in Sess : tasks[t].pc # "begin"
    /\ taskRef' = 0
    /\ StopTail
    /\ stopPc' = "idle" /\ stopTask' = 0 /\ stopSess' = 0
    /\ stopped' = stopped \cup {stopSess}
    /\ UNCHANGED <<running, evq, cur, hasPorts, tasks, hubRunning, seq>>
    /\ consumers' = cs /\ UNCHANGED taken
    /\ UNCHANGED <<rvars, avars, svars, hvars, dvars, wvars>>

\* the caller that resumes is not a handler that is followed
StopFinish ==
    /\ \A c \in Sess : consumers[c].pc # "stopping"
    /\ StopFinishAs(consumers)

\* a task that is alive
Alive(t) == tasks[t].pc \notin (Done \cup {"none"})

\* time.monotonic() advances by one tick: every armed_start_time that is
\* set is one tick older (an age past the timeout is not told apart from
\* the first one past it)
Tick ==
    /\ \/ \E t \in Sess : Alive(t) /\ tasks[t].armedFor \in 0..armed_timeout_seconds
       \/ armedAge \in 0..armed_timeout_seconds
    /\ armedAge' = IF armedAge \in 0..armed_timeout_seconds THEN armedAge + 1
                   ELSE armedAge
    /\ tasks' = [t \in Sess |->
                    IF Alive(t) /\ tasks[t].armedFor \in 0..armed_timeout_seconds
                    THEN [tasks[t] EXCEPT !.armedFor = @ + 1]
                    ELSE tasks[t]]
    /\ UNCHANGED <<running, state, readerRef, taskRef, evq, cur, hasPorts,
                   hubRunning, seq, readers, wakeDirty, vadDirty,
                   stopPc, stopTask, stopSess, stopped>>
    /\ UNCHANGED <<rvars, avars, cvars, hvars, dvars, wvars, svars>>

\* --------------------------------------------------------- the _run task
\* first step of the task: lines 143-163
TaskBegin(t) ==
    /\ CanRun(t)
    /\ \/ tasks[t].pc = "begin" /\ stopPc # "await"
       \/ tasks[t].pc = "queued" /\ stopPc = "idle"
    /\ IF readerRef = 0
       THEN /\ tasks' = [tasks EXCEPT ![t] = Ended("finished")]
            /\ UNCHANGED <<readers, seq>>
       ELSE LoopTop(t, [tasks[t] EXCEPT !.rd = readerRef])
    /\ TaskFrame
    /\ UNCHANGED paths
    /\ UNCHANGED <<state, armedAge, evq, wakeDirty, vadDirty>>

\* read returned None: `continue`
ReadNone(t) ==
    /\ CanResume(t) /\ tasks[t].pc = "read" /\ tasks[t].frame = 0
    /\ LoopTop(t, tasks[t])
    /\ TaskFrame
    /\ UNCHANGED paths
    /\ UNCHANGED <<state, armedAge, evq, wakeDirty, vadDirty>>

\* wake.detect or vad.process raised: nothing in _handle_* or _run catches
\* it, the task ends with the exception
DetectorRaised(t) ==
    /\ CanResume(t) /\ tasks[t].pc \in {"detect", "vadA", "vadL"}
    /\ tasks' = [tasks EXCEPT ![t] = Ended("failed")]
    /\ TaskFrame
    /\ UNCHANGED paths
    /\ UNCHANGED <<state, armedAge, evq, wakeDirty, vadDirty, readers, seq>>

\* _handle_idle up to the await of wake.detect
HandleIdleCall(t) ==
    /\ CanResume(t) /\ tasks[t].pc = "read" /\ tasks[t].frame # 0
    /\ state = "IDLE"
    /\ Dispatch(t, [tasks[t] EXCEPT !.ln = 0], "detect")
    /\ wakeDirty' = TRUE
    /\ TaskFrame
    /\ UNCHANGED paths
    /\ UNCHANGED <<state, armedAge, evq, vadDirty>>

\* _handle_idle after wake.detect returned WakeEvent(detected = hit)
HandleIdleDone(t, hit) ==
    /\ CanResume(t) /\ tasks[t].pc = "detect"
    /\ IF hit
       THEN /\ state' = "ARMED"
            /\ armedAge' = AgeAfter(state, "ARMED")
            /\ evq' = evq \o SetStateEvents(state, "ARMED", t)
            /\ vadDirty' = FALSE
            /\ LoopTop(t, [tasks[t] EXCEPT !.pre = <<>>, !.armedFor = 0,
                                           !.seen = <<>>, !.en = 0, !.eok = TRUE])
       ELSE /\ LoopTop(t, [tasks[t] EXCEPT !.armedFor = -1])
            /\ UNCHANGED <<state, armedAge, evq, vadDirty>>
    /\ TaskFrame
    /\ UNCHANGED paths
    /\ UNCHANGED wakeDirty

\* `elapsed` as _handle_armed computes it (lines 219-223)
ArmedSince(t) == IF tasks[t].armedFor = -1 THEN 0 ELSE tasks[t].armedFor

\* the armed-timeout test (line 224)
ArmedExpired(t) == ArmedSince(t) > armed_timeout_seconds

\* _handle_armed, timeout branch (lines 223-229)
HandleArmedTimeout(t) ==
    /\ CanResume(t) /\ tasks[t].pc = "read" /\ tasks[t].frame # 0
    /\ state = "ARMED"
    /\ ArmedExpired(t)
    /\ state' = "IDLE"
    /\ armedAge' = AgeAfter(state, "IDLE")
    /\ evq' = evq \o SetStateEvents(state, "IDLE", t)
    /\ wakeDirty' = FALSE /\ vadDirty' = FALSE
    /\ LoopTop(t, [tasks[t] EXCEPT !.pre = <<>>, !.armedFor = -1, !.ended = FALSE,
                                   !.seen = <<>>, !.eok = FALSE, !.ln = 0])
    /\ TaskFrame
    /\ UNCHANGED paths

\* _handle_armed up to the await of vad.process (lines 231-237)
HandleArmedCall(t) ==
    /\ CanResume(t) /\ tasks[t].pc = "read" /\ tasks[t].frame # 0
    /\ state = "ARMED"
    /\ ~ArmedExpired(t)
    /\ Dispatch(t, [tasks[t] EXCEPT !.armedFor = ArmedSince(t),
                                    !.pre = PushPreRoll(@, tasks[t].frame),
                                    !.seen = Append(@, tasks[t].frame),
                                    !.ln = 0],
                "vadA")
    /\ vadDirty' = TRUE
    /\ TaskFrame
    /\ UNCHANGED paths
    /\ UNCHANGED <<state, armedAge, evq, wakeDirty>>

\* _handle_armed after vad.process returned `ev`: "none" is None, "start"
\* is VadEvent(detected=True), "end" is VadEvent(detected=False)
HandleArmedDone(t, ev) ==
    /\ CanResume(t) /\ tasks[t].pc = "vadA"
    /\ IF ev = "start"
       THEN /\ state' = "LISTENING"
            /\ armedAge' = AgeAfter(state, "LISTENING")
            /\ evq' = evq \o SetStateEvents(state, "LISTENING", t)
            /\ LoopTop(t, [tasks[t] EXCEPT !.utt = tasks[t].pre, !.pre = <<>>,
                                           !.armedFor = -1, !.ended = FALSE])
       ELSE /\ LoopTop(t, [tasks[t] EXCEPT !.ended = FALSE,
                                           !.eok = @ /\ ev = "none"])
            /\ UNCHANGED <<state, armedAge, evq>>
    /\ TaskFrame
    /\ UNCHANGED paths
    /\ UNCHANGED <<wakeDirty, vadDirty>>

\* lines 263-269 and 287-293, then 192-194: what follows _process_utterance
FinalizeTail(t, loc, evs) ==
    /\ state' = "IDLE"
    /\ armedAge' = AgeAfter(state, "IDLE")
    /\ evq' = evq \o evs \o SetStateEvents(state, "IDLE", t)
    /\ wakeDirty' = FALSE /\ vadDirty' = FALSE
    /\ LoopTop(t, [loc EXCEPT !.utt = <<>>, !.hang = <<>>, !.pre = <<>>,
                              !.ended = FALSE, !.armedFor = -1, !.eok = FALSE,
                              !.seen = <<>>, !.en = 0, !.trig = "-",
                              !.persisted = 0, !.ln = 0, !.carried = {}])

\* _process_utterance(frames) returns at once, with no event (lines 299-303)
ProcessSkipped(frames) == frames = <<>> \/ ~hasPorts

\* _process_utterance(frames) up to its first await (lines 299-322); the
\* caller's utterance_frames still holds `frames`
ProcessUtterance(t, loc, frames, trig) ==
    IF ProcessSkipped(frames)
    THEN FinalizeTail(t, loc, <<>>)
    ELSE /\ Dispatch(t, [loc EXCEPT !.utt = frames, !.trig = trig], "save")
         /\ UNCHANGED <<state, armedAge, evq, wakeDirty, vadDirty>>

\* the test made one frame late
UtteranceFullLate(utt) == Len(utt) > max_utterance_frames + 1

\* the max-utterance test (line 261)
UtteranceFull(utt) == Len(utt) >= max_utterance_frames

\* _handle_listening when the utterance is full (lines 258-262)
HandleListeningMax(t) ==
    /\ CanResume(t) /\ tasks[t].pc = "read" /\ tasks[t].frame # 0
    /\ state = "LISTENING"
    /\ UtteranceFull(Append(tasks[t].utt, tasks[t].frame))
    /\ ProcessUtterance(t, [tasks[t] EXCEPT !.ln = @ + 1],
                        Append(tasks[t].utt, tasks[t].frame), "max")
    /\ TaskFrame
    /\ UNCHANGED paths

\* _handle_listening up to the await of vad.process (lines 258-272)
HandleListeningCall(t) ==
    /\ CanResume(t) /\ tasks[t].pc = "read" /\ tasks[t].frame # 0
    /\ state = "LISTENING"
    /\ ~UtteranceFull(Append(tasks[t].utt, tasks[t].frame))
    /\ Dispatch(t, [tasks[t] EXCEPT !.utt = Append(@, tasks[t].frame),
                                    !.ln = @ + 1], "vadL")
    /\ vadDirty' = TRUE
    /\ TaskFrame
    /\ UNCHANGED paths
    /\ UNCHANGED <<state, armedAge, evq, wakeDirty>>

\* hangover_frames after lines 273-281
Hangover(hang, ended, ev, f) ==
    LET h1 == IF ev = "end" THEN <<f>> ELSE hang
    IN  IF (ended \/ ev = "end") /\ f \notin Range(h1) THEN Append(h1, f) ELSE h1

\* the utterance handed to _process_utterance by the hangover rule (line 285)
HangoverUtterance(utt, hang) == utt \o hang

\* _handle_listening after vad.process returned `ev` (lines 273-295)
HandleListeningDone(t, ev) ==
    /\ CanResume(t) /\ tasks[t].pc = "vadL"
    /\ LET me == tasks[t]
           ended1 == me.ended \/ ev = "end"
           hang1 == Hangover(me.hang, me.ended, ev, me.frame)
           eok1 == me.eok /\ ev # "start" /\ (me.ended => ev = "none")
           loc == [me EXCEPT !.hang = hang1,
                             !.eok = eok1,
                             !.en = IF ~eok1 THEN 0
                                    ELSE IF ~me.ended /\ ev = "none" THEN @ + 1
                                    ELSE @]
       IN  IF ended1 /\ Len(hang1) >= hangover_max
           THEN ProcessUtterance(t, loc, HangoverUtterance(me.utt, hang1), "hangover")
           ELSE /\ LoopTop(t, [loc EXCEPT !.armedFor = -1,
                                          !.ended = IF state = "IDLE" THEN FALSE
                                                    ELSE ended1])
                /\ UNCHANGED <<state, armedAge, evq, wakeDirty, vadDirty>>
    /\ TaskFrame
    /\ UNCHANGED paths

\* _process_utterance after save_recording returned or raised (lines 321-329)
SaveDone(t, ok) ==
    /\ CanResume(t) /\ tasks[t].pc = "save"
    /\ IF ok
       THEN /\ Dispatch(t, [tasks[t] EXCEPT !.persisted = paths + 1], "stt")
            /\ paths' = paths + 1
            /\ UNCHANGED <<state, armedAge, evq, wakeDirty, vadDirty>>
       ELSE /\ FinalizeTail(t, tasks[t], ProcessFailEvents(t))
            /\ UNCHANGED paths
    /\ TaskFrame

\* _process_utterance after transcribe_recording returned or raised
\* (lines 328-336)
SttDone(t, ok) ==
    /\ CanResume(t) /\ tasks[t].pc = "stt"
    /\ FinalizeTail(t, tasks[t],
                    IF ok THEN ProcessOkEvents(t) ELSE ProcessFailEvents(t))
    /\ TaskFrame
    /\ UNCHANGED paths

VadEvents == {"none", "start", "end"}

TaskStep(t) ==
    \/ TaskBegin(t)
    \/ TaskCancelled(t)
    \/ ReadNone(t)
    \/ DetectorRaised(t)
    \/ HandleIdleCall(t)
    \/ \E hit \in BOOLEAN : HandleIdleDone(t, hit)
    \/ HandleArmedTimeout(t)
    \/ HandleArmedCall(t)
    \/ \E ev \in VadEvents : HandleArmedDone(t, ev)
    \/ HandleListeningMax(t)
    \/ HandleListeningCall(t)
    \/ \E ev \in VadEvents : HandleListeningDone(t, ev)
    \/ \E ok \in BOOLEAN : SaveDone(t, ok)
    \/ \E ok \in BOOLEAN : SttDone(t, ok)

Next ==
    \/ Start
    \/ StartRejected
    \/ StopNoTask
    \/ StopRaises
    \/ StopBegin
    \/ StopFinish
    \/ Tick
    \/ \E t \in Sess : TaskStep(t)
    \/ \E o \in orphans : WorkerReturns(o)

Spec == Init /\ [][Next]_vars

\* the listener for more sessions and fewer frames, the first of which
\* arrives when QuietSess sessions have been started and stopped
NextFresh ==
    /\ Next \/ StartAs(MaxSessFresh)
    /\ seq' <= (IF cur' <= QuietSess THEN 0 ELSE MaxSeqFresh)

SpecFresh == Init /\ [][NextFresh]_vars

\* reader.read(0.1) returns a frame to loop t (lines 163-165)
FrameRead(t) == TaskStep(t) /\ tasks'[t].pc = "read" /\ tasks'[t].frame # 0

\* a frame waits in the listener's subscription
FrameWaits ==
    /\ readerRef # 0 /\ hubRunning
    /\ readers[readerRef].open /\ readers[readerRef].pos < FrameLimit

\* the listener while the event loop runs every coroutine that is ready
\* (the tasks, and a caller of stop() whose awaited task has ended),
\* time.monotonic() advances, and a read is not timed out for ever while
\* frames wait in its subscription
SpecLive ==
    /\ Init /\ [][Next]_vars
    /\ WF_vars(Tick) /\ WF_vars(StopFinish)
    /\ \A t \in Sess : WF_vars(TaskStep(t)) /\ SF_vars(FrameRead(t))

\* =================================================================
\* events(): the websocket handler that called start() iterates it
\* (api/main_router.py, lines 79-94)
\* =================================================================

\* places in the current queue of the events no get() has removed
Pending == DOMAIN evq \ taken

\* the newest event is handed out first
GetNewest(pending) == CHOOSE i \in pending : \A j \in pending : j <= i

\* asyncio.Queue.get: the oldest event of the queue
QueueGet(pending) == CHOOSE i \in pending : \A j \in pending : i <= j

ConsumerFrame == UNCHANGED <<lvars, rvars, avars, svars, hvars, dvars, wvars>>

\* the handler has sent what it held (the state after start(), or the event
\* it was yielded) and is back at `while self._running` (line 120): it
\* calls get() on the queue of the moment, or the iteration ends
ConsumerLoop(c) ==
    /\ consumers[c].pc = "send"
    /\ consumers' = [consumers EXCEPT ![c].pc = IF running THEN "get" ELSE "ended",
                                      ![c].queue = IF running THEN cur ELSE 0]
    /\ UNCHANGED taken
    /\ ConsumerFrame

\* get() returns the oldest event of the queue; events() yields it
ConsumerGet(c) ==
    /\ consumers[c].pc = "get"
    /\ consumers[c].queue = cur
    /\ Pending # {}
    /\ taken' = taken \cup {QueueGet(Pending)}
    /\ consumers' = [consumers EXCEPT ![c].pc = "send",
                                      ![c].last = <<cur, QueueGet(Pending)>>]
    /\ ConsumerFrame

\* wait_for times out on a queue that stays empty (lines 126-128) and the
\* loop test is made again; a timeout that leads to the same get() on the
\* same queue is no step
ConsumerTimeout(c) ==
    /\ consumers[c].pc = "get"
    /\ consumers[c].queue # cur \/ Pending = {}
    /\ ~running \/ consumers[c].queue # cur
    /\ consumers' = [consumers EXCEPT ![c].pc = IF running THEN "get" ELSE "ended",
                                      ![c].queue = IF running THEN cur ELSE 0]
    /\ UNCHANGED taken
    /\ ConsumerFrame

ConsumerStep(c) ==
    \/ ConsumerLoop(c)
    \/ ConsumerGet(c)
    \/ ConsumerTimeout(c)

\* the listener with its consumers, for fewer sessions and frames
NextEvents ==
    \/ Next /\ cur' <= MaxSessEvents /\ seq' <= MaxSeqEvents
    \/ \E c \in Sess : ConsumerStep(c)

SpecEvents == Init /\ [][NextEvents]_vars

\* =================================================================
\* websocket_listen (api/main_router.py): the command loop of the
\* connection whose start command began session c.  Between two commands
\* the handler is at receive_json (pc = "ended": its events() has ended).
\* =================================================================

\* the client sends {"action": "stop"} on a connection whose start command
\* succeeded; the message waits until the handler calls receive_json
ClientSendsStop(c) ==
    /\ consumers[c].pc \in {"send", "get", "ended"}
    /\ ~consumers[c].inbox /\ consumers[c].reply = "-"
    /\ consumers' = [consumers EXCEPT ![c].inbox = TRUE]
    /\ UNCHANGED taken
    /\ ConsumerFrame

\* lines 57, 96-103: the stop command is received while the listener is
\* not listening; the handler answers with an error event
HandlerStopRejected(c) ==
    /\ consumers[c].pc = "ended" /\ consumers[c].inbox
    /\ ~running
    /\ consumers' = [consumers EXCEPT ![c].inbox = FALSE, ![c].reply = "error"]
    /\ UNCHANGED taken
    /\ ConsumerFrame

\* lines 57, 96-105: the stop command is received while the listener is
\* listening; the handler calls stop(), which returns, raises, or suspends
\* at `await self._task`
HandlerStop(c) ==
    /\ consumers[c].pc = "ended" /\ consumers[c].inbox
    /\ \/ StopNoTaskAs([consumers EXCEPT ![c].inbox = FALSE, ![c].pc = "reply"])
       \/ StopRaisesAs([consumers EXCEPT ![c].inbox = FALSE, ![c].pc = "raised"])
       \/ StopBeginAs([consumers EXCEPT ![c].inbox = FALSE, ![c].pc = "stopping"])

\* line 105: the handler's stop() resumes after the task has ended
HandlerStopFinish(c) ==
    /\ consumers[c].pc = "stopping"
    /\ StopFinishAs([consumers EXCEPT ![c].pc = "reply"])

\* lines 106-110: the handler sends state_change STOPPED and goes back to
\* receive_json
HandlerStopped(c) ==
    /\ consumers[c].pc = "reply"
    /\ consumers' = [consumers EXCEPT ![c].pc = "ended", ![c].reply = "STOPPED"]
    /\ UNCHANGED taken
    /\ ConsumerFrame

HandlerStep(c) ==
    \/ ConsumerStep(c)
    \/ HandlerStopRejected(c)
    \/ HandlerStop(c)
    \/ HandlerStopFinish(c)
    \/ HandlerStopped(c)

\* the listener, its handlers and their clients, for few sessions and frames
NextWs ==
    \/ Next /\ cur' <= MaxSessWs /\ seq' <= MaxSeqWs
    \/ \E c \in Sess : HandlerStep(c)
    \/ \E c \in Sess : ClientSendsStop(c)

\* the event loop runs every coroutine that is ready: the handlers and the
\* listener's task; clients and other callers of start() and stop() are
\* free to do nothing
SpecWs ==
    /\ Init /\ [][NextWs]_vars
    /\ \A c \in Sess : WF_vars(HandlerStep(c))
    /\ \A t \in Sess : WF_vars(TaskStep(t))

\* =================================================================
\* RecorderService: calling threads and the capture thread
\* =================================================================

\* what the recorder's actions leave alone
RecorderFrame ==
    UNCHANGED <<running, state, armedAge, readerRef, taskRef, evq, cur, hasPorts, tasks,
                hubRunning, readers, wakeDirty, vadDirty,
                stopPc, stopTask, stopSess, stopped, avars, cvars, hvars, dvars, wvars>>

\* a lock taken without waiting for it to be free
AcquireNoExclusion(c) == lock' = c

\* `with self._lock:` entered by thread c
Acquire(c) == lock = 0 /\ lock' = c

\* start_recording, line 43: the calling thread gets the lock
StartRecordingEnter(c) ==
    /\ calls[c].pc = "idle"
    /\ Acquire(c)
    /\ calls' = [calls EXCEPT ![c] = [NoCall EXCEPT !.pc = "start_check"]]
    /\ UNCHANGED <<session, recReader, thread, stopEvent, chunks, recCur,
                   recSubs, captures, seq>>
    /\ RecorderFrame
    /\ UNCHANGED svars

\* start_recording, lines 44-47: one of the two checks raises; the lock is
\* released by the `with`
StartRecordingFails(c) ==
    /\ calls[c].pc = "start_check"
    /\ session # 0 \/ ~hubRunning
    /\ lock' = 0
    /\ calls' = [calls EXCEPT ![c] = NoCall]
    /\ UNCHANGED <<session, recReader, thread, stopEvent, chunks, recCur,
                   recSubs, captures, seq>>
    /\ RecorderFrame
    /\ UNCHANGED svars

\* start_recording, lines 44-49: both checks pass; _stop.clear(), _chunks = []
StartRecordingChecked(c) ==
    /\ calls[c].pc = "start_check"
    /\ session = 0 /\ hubRunning
    /\ recCur < MaxRec
    /\ stopEvent' = FALSE
    /\ chunks' = <<>>
    /\ calls' = [calls EXCEPT ![c].pc = "start_subscribe"]
    /\ UNCHANGED <<lock, session, recReader, thread, recCur, recSubs,
                   captures, seq>>
    /\ RecorderFrame
    /\ UNCHANGED svars

\* start_recording, lines 50-51: subscribe and keep the reader
StartRecordingSubscribe(c) ==
    /\ calls[c].pc = "start_subscribe"
    /\ recCur' = recCur + 1
    /\ recSubs' = [recSubs EXCEPT ![recCur + 1] = [open |-> TRUE, pos |-> seq]]
    /\ recReader' = recCur + 1
    /\ calls' = [calls EXCEPT ![c].pc = "start_thread"]
    /\ UNCHANGED <<lock, session, thread, stopEvent, chunks, captures, seq>>
    /\ RecorderFrame
    /\ UNCHANGED svars

\* start_recording, lines 52-56: start the capture thread, set the session,
\* release the lock and return the session
StartRecordingReturns(c) ==
    /\ calls[c].pc = "start_thread"
    /\ thread' = recCur
    /\ captures' = [captures EXCEPT ![recCur] = [NoCapture EXCEPT !.pc = "begin"]]
    /\ session' = recCur
    /\ lock' = 0
    /\ calls' = [calls EXCEPT ![c] = NoCall]
    /\ UNCHANGED <<recReader, stopEvent, chunks, recCur, recSubs, seq>>
    /\ RecorderFrame
    /\ UNCHANGED svars

\* a stop_recording that signals the capture thread before it finds that
\* there is no session
StopRecordingFailsSignalled(c) ==
    /\ calls[c].pc = "idle"
    /\ lock = 0
    /\ session = 0
    /\ stopEvent' = TRUE
    /\ UNCHANGED <<lock, session, recReader, thread, chunks, recCur,
                   recSubs, captures, calls, seq>>
    /\ RecorderFrame
    /\ UNCHANGED svars

\* stop_recording, lines 59-61: no session, RuntimeError
StopRecordingFails(c) ==
    /\ calls[c].pc = "idle"
    /\ lock = 0
    /\ session = 0
    /\ UNCHANGED <<lock, session, recReader, thread, stopEvent, chunks, recCur,
                   recSubs, captures, calls, seq>>
    /\ RecorderFrame
    /\ UNCHANGED svars

\* stop_recording, lines 59-64: the first locked block
StopRecordingSignal(c) ==
    /\ calls[c].pc = "idle"
    /\ lock = 0
    /\ session # 0
    /\ stopEvent' = TRUE
    /\ calls' = [calls EXCEPT ![c] = [NoCall EXCEPT !.pc = "stop_join",
                                                     !.thread = thread,
                                                     !.reader = recReader,
                                                     !.sess = session]]
    /\ UNCHANGED <<lock, session, recReader, thread, chunks, recCur,
                   recSubs, captures, seq>>
    /\ RecorderFrame
    /\ UNCHANGED svars

\* a capture thread has ended
Joined(k) == k = 0 \/ captures[k].pc = "none"

\* stop_recording, lines 66-67: thread.join(timeout=5.0) returns, the
\* thread having ended (joined) or not (the 5 seconds are over)
StopRecordingJoin(c, joined) ==
    /\ calls[c].pc = "stop_join"
    /\ joined = Joined(calls[c].thread)
    /\ calls' = [calls EXCEPT ![c].pc = "stop_clear", ![c].joined = joined]
    /\ captures' = IF joined THEN captures
                   ELSE [captures EXCEPT ![calls[c].thread].late = TRUE]
    /\ UNCHANGED <<lock, session, recReader, thread, stopEvent, chunks, recCur,
                   recSubs, seq>>
    /\ RecorderFrame
    /\ UNCHANGED svars

\* a second locked block that takes the chunks and leaves the session, to
\* be cleared only once the recording is stored
StopRecordingClearLater(c) ==
    /\ calls[c].pc = "stop_clear"
    /\ lock = 0
    /\ chunks' = <<>>
    /\ calls' = [calls EXCEPT ![c].pc = "stop_close", ![c].chunks = chunks]
    /\ UNCHANGED <<lock, session, thread, recReader, stopEvent, recCur,
                   recSubs, captures, seq>>
    /\ RecorderFrame
    /\ UNCHANGED svars

\* stop_recording, lines 69-74: the second locked block
StopRecordingClear(c) ==
    /\ calls[c].pc = "stop_clear"
    /\ lock = 0
    /\ session' = 0 /\ thread' = 0 /\ recReader' = 0
    /\ chunks' = <<>>
    /\ calls' = [calls EXCEPT ![c].pc = "stop_close", ![c].chunks = chunks]
    /\ UNCHANGED <<lock, stopEvent, recCur, recSubs, captures, seq>>
    /\ RecorderFrame
    /\ UNCHANGED svars

\* frame.data: the samples of a frame, named by the frame
FrameData(f) == <<f>>

\* lines 85: np.concatenate(chunks, axis=0)
Payload(chs) == Concatenate([i \in DOMAIN chs |-> FrameData(chs[i])])

\* save_recording (adapters/audio/ffmpeg.py): the file at `path` holds the
\* audio it was given, and the recording's data is dropped (clear_data)
Persisted(path, audio) == [path |-> path, data |-> "None", file |-> audio]

\* a registry that keeps only the newest recording
StoreNewest(reg, rec) == [id \in {rec.path} |-> rec]

\* store_recording, lines 112-118: recording_id = str(recording.path)
StoreRecording(reg, rec) ==
    [id \in DOMAIN reg \cup {rec.path} |-> IF id = rec.path THEN rec ELSE reg[id]]

\* how stop_recording ends (lines 82-99): RuntimeError when there are no
\* chunks, else the stored recording, or the exception of save_recording
StopRecordingResult(c, saved) ==
    IF calls[c].chunks = <<>> THEN "no_audio"
    ELSE IF saved THEN "recording" ELSE "save_failed"

\* what stop_recording raises for each of its outcomes: RuntimeError at
\* recording.py:61 and :83, and save_recording's RuntimeError for a non-zero
\* exit of ffmpeg (adapters/audio/ffmpeg.py:81-83)
StopRecordingRaises(outcome) ==
    IF outcome = "recording" THEN "None" ELSE "RuntimeError"

\* status.HTTP_409_CONFLICT
HTTP_409_CONFLICT == 409

\* POST /stop_recording (api/service_router.py:41-50): RuntimeError becomes
\* HTTPException(409); the framework answers 200 with the response model and
\* 500 for an exception the endpoint does not catch
StopRecordingStatus(outcome) ==
    IF StopRecordingRaises(outcome) = "RuntimeError" THEN HTTP_409_CONFLICT
    ELSE IF StopRecordingRaises(outcome) = "None" THEN 200
    ELSE 500

\* stop_recording, lines 76-99: close the reader, then return or raise
StopRecordingReturns(c, saved) ==
    /\ calls[c].pc = "stop_close"
    /\ recSubs' = IF calls[c].reader = 0 THEN recSubs
                  ELSE [recSubs EXCEPT ![calls[c].reader] = NoReader]
    /\ calls' = [calls EXCEPT ![c] = NoCall]
    /\ IF StopRecordingResult(c, saved) = "recording"
       THEN /\ paths' = paths + 1
            /\ recordings' = StoreRecording(recordings,
                                  Persisted(paths + 1, Payload(calls[c].chunks)))
       ELSE UNCHANGED svars
    /\ UNCHANGED <<lock, session, recReader, thread, stopEvent, chunks, recCur,
                   captures, seq>>
    /\ RecorderFrame

\* the ids a caller may ask for: the registered ones and one that was never
\* given out
RecordingIds == DOMAIN recordings \cup {paths + 1}

\* dataclasses.replace(recording), line 125: a new record with the same fields
Replace(rec) == [f \in DOMAIN rec |-> rec[f]]

\* get_recording, lines 120-125: the value returned, or the KeyError raised
GetRecordingResult(reg, id) ==
    IF id \in DOMAIN reg THEN Replace(reg[id]) ELSE "KeyError"

\* get_recording, lines 120-125, called by thread c: a lookup, no assignment
GetRecording(c, id) ==
    /\ calls[c].pc = "idle"
    /\ id \in RecordingIds
    /\ UNCHANGED <<lock, session, recReader, thread, stopEvent, chunks, recCur,
                   recSubs, captures, calls, seq>>
    /\ RecorderFrame
    /\ UNCHANGED svars

\* _run_capture, lines 102-104
CaptureBegin(k) ==
    /\ captures[k].pc = "begin"
    /\ captures' = [captures EXCEPT ![k] =
                       IF recReader = 0 THEN [captures[k] EXCEPT !.pc = "none"]
                       ELSE [captures[k] EXCEPT !.pc = "loop", !.rd = recReader]]
    /\ UNCHANGED <<lock, session, recReader, thread, stopEvent, chunks, recCur,
                   recSubs, calls, seq>>
    /\ RecorderFrame
    /\ UNCHANGED svars

\* _run_capture, line 105: the stop event is set, the thread ends
CaptureEnds(k) ==
    /\ captures[k].pc = "loop"
    /\ stopEvent
    /\ captures' = [captures EXCEPT ![k] = [NoCapture EXCEPT !.got = captures[k].got,
                                                             !.late = captures[k].late]]
    /\ UNCHANGED <<lock, session, recReader, thread, stopEvent, chunks, recCur,
                   recSubs, calls, seq>>
    /\ RecorderFrame
    /\ UNCHANGED svars

\* _run_capture, lines 105-108: reader.read(0.25) returns a frame (a read
\* that returns None changes nothing)
CaptureRead(k) ==
    /\ captures[k].pc = "loop"
    /\ ~stopEvent
    /\ LET r == captures[k].rd
       IN  /\ recSubs[r].open /\ hubRunning /\ recSubs[r].pos < MaxSeq
           /\ recSubs' = [recSubs EXCEPT ![r].pos = @ + 1]
           /\ captures' = [captures EXCEPT ![k].pc = "append",
                                           ![k].frame = recSubs[r].pos + 1,
                                           ![k].got = Append(@, recSubs[r].pos + 1)]
           /\ seq' = Max(seq, recSubs[r].pos + 1)
    /\ UNCHANGED <<lock, session, recReader, thread, stopEvent, chunks, recCur,
                   calls>>
    /\ RecorderFrame
    /\ UNCHANGED svars

\* _run_capture, lines 109-110
CaptureAppend(k) ==
    /\ captures[k].pc = "append"
    /\ lock = 0
    /\ chunks' = Append(chunks, captures[k].frame)
    /\ captures' = [captures EXCEPT ![k].pc = "loop", ![k].frame = 0]
    /\ UNCHANGED <<lock, session, recReader, thread, stopEvent, recCur,
                   recSubs, calls, seq>>
    /\ RecorderFrame
    /\ UNCHANGED svars

NextRecorder ==
    \/ \E c \in Callers :
          \/ StartRecordingEnter(c)
          \/ StartRecordingFails(c)
          \/ StartRecordingChecked(c)
          \/ StartRecordingSubscribe(c)
          \/ StartRecordingReturns(c)
          \/ StopRecordingFails(c)
          \/ StopRecordingSignal(c)
          \/ \E joined \in BOOLEAN : StopRecordingJoin(c, joined)
          \/ StopRecordingClear(c)
          \/ \E saved \in BOOLEAN : StopRecordingReturns(c, saved)
          \/ \E id \in RecordingIds : GetRecording(c, id)
    \/ \E k \in Recs :
          \/ CaptureBegin(k)
          \/ CaptureEnds(k)
          \/ CaptureRead(k)
          \/ CaptureAppend(k)

SpecRecorder == Init /\ [][NextRecorder]_vars

\* =================================================================
\* The stream hub behind AudioStreamPort (ports/audiostream.py): one
\* producer, subscribers with bounded queues, drop-oldest
\* =================================================================

HubFrame == UNCHANGED <<lvars, rvars, avars, cvars, svars, dvars, wvars>>

\* a full queue keeps what it holds and the new frame is lost
OfferDropNewest(q, max_frames, f) ==
    IF Len(q) >= max_frames THEN q ELSE Append(q, f)

\* a frame is offered to a queue of capacity max_frames: when the queue is
\* full its oldest frame is discarded, then the frame is admitted
Offer(q, max_frames, f) ==
    IF Len(q) >= max_frames THEN Append(Tail(q), f) ELSE Append(q, f)

\* the frame handed out is the newest of the queue
QueueNewest(q) == q[Len(q)]

\* read(): the frame handed out is the oldest of the queue
QueueOldest(q) == Head(q)

\* the queue after a read
QueueRest(q, f) == SelectSeq(q, LAMBDA g : g # f)

\* a fan-out is in progress: the subscriber list is locked
Locked == fanout # {}

\* subscribe(name, max_frames): a new subscriber with an empty queue
HubSubscribe(k, max_frames) ==
    /\ ~Locked
    /\ hubSubs[k].st = "none"
    /\ \A j \in Subs : j < k => hubSubs[j].st # "none"
    /\ hubSubs' = [hubSubs EXCEPT ![k] = [NoSub EXCEPT !.st = "live",
                                                       !.max_frames = max_frames,
                                                       !.since = hubSeq,
                                                       !.last = hubSeq]]
    /\ UNCHANGED <<hubSeq, fanout>>
    /\ HubFrame

\* the producer takes a chunk from the device callback, gives it the next
\* sequence number and begins the fan-out; closed readers leave the list
HubProduce ==
    /\ ~Locked
    /\ hubRunning
    /\ hubSeq < MaxHubSeq
    /\ hubSeq' = hubSeq + 1
    /\ hubSubs' = [k \in Subs |->
                      IF hubSubs[k].st = "closed"
                      THEN [hubSubs[k] EXCEPT !.st = "removed", !.queue = <<>>]
                      ELSE hubSubs[k]]
    /\ fanout' = {k \in Subs : hubSubs[k].st = "live"}
    /\ HubFrame

\* a full queue makes room in every subscriber's queue
OfferedShared(subs, k, f) ==
    LET me == subs[k]
        full == Len(me.queue) >= me.max_frames
    IN  [j \in DOMAIN subs |->
            IF j = k
            THEN [me EXCEPT !.queue = Offer(me.queue, me.max_frames, f),
                            !.last = f,
                            !.drops = IF full THEN @ + 1 ELSE @]
            ELSE IF full /\ subs[j].queue # <<>>
            THEN [subs[j] EXCEPT !.queue = Tail(@)]
            ELSE subs[j]]

\* the subscribers after frame f was offered to subscriber k
Offered(subs, k, f) ==
    LET me == subs[k]
        full == Len(me.queue) >= me.max_frames
    IN  [subs EXCEPT ![k] =
            [me EXCEPT !.queue = Offer(me.queue, me.max_frames, f),
                       !.last = f,
                       !.drops = IF full THEN @ + 1 ELSE @]]

\* the frame is offered to the queue of subscriber k
HubOffer(k) ==
    /\ k \in fanout
    /\ hubSubs' = Offered(hubSubs, k, hubSeq)
    /\ fanout' = fanout \ {k}
    /\ UNCHANGED hubSeq
    /\ HubFrame

\* reader.read() returns a frame (a read that returns None, on an empty
\* queue or a closed reader, changes nothing)
HubRead(k) ==
    /\ hubSubs[k].st = "live"
    /\ hubSubs[k].queue # <<>>
    /\ LET f == QueueOldest(hubSubs[k].queue)
       IN  hubSubs' = [hubSubs EXCEPT ![k].queue = QueueRest(@, f),
                                      ![k].got = Append(@, f)]
    /\ UNCHANGED <<hubSeq, fanout>>
    /\ HubFrame

\* reader.close(): the reader returns None from now on and the hub drops
\* it from its list on the next fan-out
HubClose(k) ==
    /\ ~Locked
    /\ hubSubs[k].st = "live"
    /\ hubSubs' = [hubSubs EXCEPT ![k].st = "closed"]
    /\ UNCHANGED <<hubSeq, fanout>>
    /\ HubFrame

NextHub ==
    \/ HubProduce
    \/ \E k \in Subs :
          \/ \E n \in Capacities : HubSubscribe(k, n)
          \/ HubOffer(k)
          \/ HubRead(k)
          \/ HubClose(k)

SpecHub == Init /\ [][NextHub]_vars

\* =================================================================
\* Recording (domain/models.py) and AudioConverterAdapter.save_recording
\* (adapters/audio/ffmpeg.py): one object, operations one after the other
\* =================================================================

RecordingFrame == UNCHANGED <<lvars, rvars, avars, cvars, recordings, hvars, wvars>>

\* shapes of the ndarray a Recording is made with: 1-D, 2-D and 3-D
DataShapes ==
    {<<n>> : n \in 1..2} \cup {<<n, c>> : n \in 1..2, c \in 1..2} \cup {<<1, 1, 1>>}

\* how the ffmpeg process ends: Popen raises, or the exit code
ProcOutcomes == {"OSError", "0", "1"}

\* Recording.__post_init__ (lines 96-98)
PostInit(data, path) ==
    IF data = NoData /\ path = 0 THEN "ValueError" ELSE "None"

\* clear_data without the check of the path
ClearDataUnchecked(rec) ==
    [raised |-> "None", rec |-> [rec EXCEPT !.data = NoData]]

\* Recording.clear_data (lines 99-103)
ClearData(rec) ==
    IF rec.path = 0 THEN [raised |-> "ValueError", rec |-> rec]
    ELSE [raised |-> "None", rec |-> [rec EXCEPT !.data = NoData]]

\* save_recording, lines 33-56: the checks of the input
SaveRecordingChecks(rec) ==
    IF rec.data = NoData THEN "ValueError"
    ELSE IF Len(rec.data) = 1
    THEN IF rec.channels # 1 THEN "ValueError" ELSE "None"
    ELSE IF Len(rec.data) = 2
    THEN IF rec.data[2] = rec.channels \/ rec.data[1] = rec.channels
         THEN "None" ELSE "ValueError"
    ELSE "ValueError"

\* a save_recording that sets the path before it looks at the exit code
SaveRecordingPathFirst(rec, proc, out_path) ==
    IF SaveRecordingChecks(rec) # "None"
    THEN [raised |-> SaveRecordingChecks(rec), rec |-> rec]
    ELSE IF proc = "OSError" THEN [raised |-> "OSError", rec |-> rec]
    ELSE IF proc # "0"
    THEN [raised |-> "RuntimeError", rec |-> [rec EXCEPT !.path = out_path]]
    ELSE ClearData([rec EXCEPT !.path = out_path])

\* save_recording (lines 32-90) on `rec`, the process ending as `proc` and
\* uuid4 giving `out_path`: what is raised and what the object is afterwards
SaveRecording(rec, proc, out_path) ==
    IF SaveRecordingChecks(rec) # "None"
    THEN [raised |-> SaveRecordingChecks(rec), rec |-> rec]
    ELSE IF proc = "OSError" THEN [raised |-> "OSError", rec |-> rec]
    ELSE IF proc # "0" THEN [raised |-> "RuntimeError", rec |-> rec]
    ELSE ClearData([rec EXCEPT !.path = out_path])

\* Recording(data=..., path=..., channels=...): a new object, or ValueError
NewRecording(data, path, channels) ==
    /\ raised' = PostInit(data, path)
    /\ recording' = IF PostInit(data, path) = "None"
                     THEN [made |-> TRUE, data |-> data, path |-> path,
                           channels |-> channels]
                     ELSE NoRecording
    /\ prior' = NoRecording
    /\ UNCHANGED paths
    /\ RecordingFrame

\* storage.save_recording(recording)
CallSaveRecording(proc) ==
    /\ recording.made
    /\ paths < MaxSaves
    /\ LET res == SaveRecording(recording, proc, paths + 1)
       IN  /\ raised' = res.raised
           /\ recording' = res.rec
           /\ paths' = IF res.raised = "None" THEN paths + 1 ELSE paths
    /\ prior' = recording
    /\ RecordingFrame

\* recording.clear_data()
CallClearData ==
    /\ recording.made
    /\ raised' = ClearData(recording).raised
    /\ recording' = ClearData(recording).rec
    /\ prior' = recording
    /\ UNCHANGED paths
    /\ RecordingFrame

NextRecording ==
    \/ \E data \in DataShapes \cup {NoData}, path \in 0..1, channels \in 1..2 :
          NewRecording(data, path, channels)
    \/ \E proc \in ProcOutcomes : CallSaveRecording(proc)
    \/ CallClearData

SpecRecording == Init /\ [][NextRecording]_vars

\* =================================================================
\* _run, lines 152-156: the buffer sizes, as functions of the settings
\* =================================================================

\* the settings tried: the stream's audio format, vad_speech_pad_ms,
\* end_hangover_ms and max_utterance_seconds
Settings ==
    [sample_rate : {8000, 16000}, blocksize : {256, 512}, pad_ms : {30, 64, 100},
     hangover_ms : {200, 300, 500}, seconds : {1, 10, 30}]

\* int(x) of the float x that stands for n / d, n and d positive: the
\* integer part; when n / d is an integer the float product may lie just
\* below it
IntOf(n, d) ==
    IF n % d = 0 THEN {n \div d, Max(0, n \div d - 1)} ELSE {n \div d}

\* lines 153-156 for one choice of the settings: fps = sample_rate /
\* blocksize, so ms / 1000 * fps is (ms * sample_rate) / (1000 * blocksize)
ComputeSizes(cfg) ==
    /\ \E p \in IntOf(cfg.pad_ms * cfg.sample_rate, 1000 * cfg.blocksize),
          h \in IntOf(cfg.hangover_ms * cfg.sample_rate, 1000 * cfg.blocksize),
          u \in IntOf(cfg.seconds * cfg.sample_rate, cfg.blocksize) :
          sizes' = [sample_rate |-> cfg.sample_rate, blocksize |-> cfg.blocksize,
                    pad_ms |-> cfg.pad_ms, hangover_ms |-> cfg.hangover_ms,
                    seconds |-> cfg.seconds,
                    pre |-> Max(1, p + 5), hang |-> Max(1, h), utt |-> u]
    /\ UNCHANGED <<lvars, rvars, avars, cvars, svars, hvars, dvars, orphans, orch>>

NextSizes == \E cfg \in Settings : ComputeSizes(cfg)

SpecSizes == Init /\ [][NextSizes]_vars

\* =================================================================
\* SileroVadAdapter (adapters/audio/silerovad.py): calls of process() and
\* reset() made one after the other
\* =================================================================
\* Samples are named by their number in the stream of the frames fed.  An
\* array is the sequence of the runs of consecutive samples it holds, a run
\* being <<first, last>>.

SILERO_FRAME_SIZE == 512

\* sizes of the frames fed (mono samples a frame)
FrameSizes == {100, 512, 600, 1600}

\* frame.to_mono_float32(): one sample for each sample time of the frame
ToMono(first, n) == <<<<first, first + n - 1>>>>

RECURSIVE Shape(_)
\* arr.shape[0]
Shape(arr) ==
    IF arr = <<>> THEN 0
    ELSE (Head(arr)[2] - Head(arr)[1] + 1) + Shape(Tail(arr))

RECURSIVE SliceTo(_, _)
\* arr[:n]
SliceTo(arr, n) ==
    IF n <= 0 \/ arr = <<>> THEN <<>>
    ELSE LET r == Head(arr)
             k == r[2] - r[1] + 1
         IN  IF k <= n THEN <<r>> \o SliceTo(Tail(arr), n - k)
             ELSE <<<<r[1], r[1] + n - 1>>>>

RECURSIVE SliceFrom(_, _)
\* arr[n:]
SliceFrom(arr, n) ==
    IF arr = <<>> THEN <<>>
    ELSE IF n <= 0 THEN arr
    ELSE LET r == Head(arr)
             k == r[2] - r[1] + 1
         IN  IF k <= n THEN SliceFrom(Tail(arr), n - k)
             ELSE <<<<r[1] + n, r[2]>>>> \o Tail(arr)

\* a remainder that is thrown away
PutBackNothing(remainder) == <<>>

\* lines 109-110: the buffer after the remainder is put back
PutBack(remainder) == IF Shape(remainder) > 0 THEN <<remainder>> ELSE <<>>

\* the newest event always wins
KeepNewest(last, event) == IF event = "none" THEN last ELSE event

\* lines 88-93: last_event after a chunk for which the detector said `event`
KeepEvent(last, event) ==
    IF event = "none" THEN last
    ELSE IF last = "end" THEN last
    ELSE event

\* process(frame), lines 78-85: the frame of n samples joins the buffer
VadProcess(n) ==
    /\ vadPc = "idle" /\ vadCalls < MaxVadCalls
    /\ buffer' = Append(buffer, ToMono(nextSample, n))
    /\ buffer_samples' = buffer_samples + Shape(ToMono(nextSample, n))
    /\ nextSample' = nextSample + n
    /\ last_event' = "none"
    /\ chunkEvents' = <<>>
    /\ vadPc' = "loop"
    /\ vadCalls' = vadCalls + 1
    /\ UNCHANGED <<returned, firstSample, invoked>>
    /\ UNCHANGED <<lvars, rvars, cvars, hvars, dvars, wvars, svars>>

\* one turn of the for loop (lines 86-93) with the generator's turn (lines
\* 99-115): a chunk is cut, the detector says `event` for it
VadChunk(event) ==
    /\ vadPc = "loop"
    /\ buffer_samples >= SILERO_FRAME_SIZE
    /\ LET combined == Concatenate(buffer)
           chunk == SliceTo(combined, SILERO_FRAME_SIZE)
           remainder == SliceFrom(combined, SILERO_FRAME_SIZE)
       IN  /\ buffer' = PutBack(remainder)
           /\ buffer_samples' = Shape(remainder)
           /\ invoked' = Append(invoked, chunk)
    /\ last_event' = KeepEvent(last_event, event)
    /\ chunkEvents' = Append(chunkEvents, event)
    /\ UNCHANGED <<vadPc, returned, nextSample, firstSample, vadCalls>>
    /\ UNCHANGED <<lvars, rvars, cvars, hvars, dvars, wvars, svars>>

\* the generator is exhausted (line 99): process() returns last_event
VadReturn ==
    /\ vadPc = "loop"
    /\ buffer_samples < SILERO_FRAME_SIZE
    /\ returned' = last_event
    /\ vadPc' = "idle"
    /\ UNCHANGED <<buffer, buffer_samples, last_event, nextSample, firstSample,
                   invoked, chunkEvents, vadCalls>>
    /\ UNCHANGED <<lvars, rvars, cvars, hvars, dvars, wvars, svars>>

\* reset(), lines 63-67
VadReset ==
    /\ vadPc = "idle" /\ vadCalls < MaxVadCalls
    /\ buffer' = <<>>
    /\ buffer_samples' = 0
    /\ firstSample' = nextSample
    /\ invoked' = <<>>
    /\ vadCalls' = vadCalls + 1
    /\ UNCHANGED <<last_event, vadPc, returned, nextSample, chunkEvents>>
    /\ UNCHANGED <<lvars, rvars, cvars, hvars, dvars, wvars, svars>>

NextVad ==
    \/ \E n \in FrameSizes : VadProcess(n)
    \/ \E event \in VadEvents : VadChunk(event)
    \/ VadReturn
    \/ VadReset

SpecVad == Init /\ [][NextVad]_vars

\* =================================================================
\* OrchestratorService (services/orchestrator.py): the threads calling
\* start(), stop() and status(), and the orchestrator thread.  _lock is a
\* threading.Lock: it has no owner, and a thread that asks for it while
\* it is held waits, the thread that holds it included.
\* =================================================================

OrchFrame == UNCHANGED <<lvars, rvars, avars, cvars, svars, hvars, dvars, orphans, sizes>>

\* the orchestrator thread runs: Thread.is_alive()
OrchAlive == orch.run.pc \notin {"none", "ended"}

\* thread c calls start() (line 86), stop() (101) or status() (115) and is
\* at the `with self._lock` the call begins with
OrchCall(c, op) ==
    /\ orch.calls[c].pc = "idle"
    /\ orch' = [orch EXCEPT !.calls[c] = [pc |-> op, op |-> op]]
    /\ OrchFrame

\* where thread w is when it stands at a `with self._lock` (lines 87, 102,
\* 109, 116, 265), "-" when it does not
OrchAt(w) == IF w = RunId THEN orch.run.pc ELSE orch.calls[w].pc

\* the block thread w enters when it gets the lock it stands at
OrchInside(at) ==
    CASE at = "start" -> "start_in"
      [] at = "stop" -> "stop_in"
      [] at = "stop_again" -> "stop_in2"
      [] at = "status" -> "status_in"
      [] at = "set_phase" -> "set_phase_in"

\* Lock.acquire by thread w: the lock is free and becomes held
OrchAcquire(w) ==
    /\ OrchAt(w) \in {"start", "stop", "stop_again", "status", "set_phase"}
    /\ orch.lock = 0
    /\ orch' = IF w = RunId
               THEN [orch EXCEPT !.lock = w, !.run.pc = OrchInside(@)]
               ELSE [orch EXCEPT !.lock = w, !.calls[w].pc = OrchInside(@)]
    /\ OrchFrame

\* start(), lines 88-99, with the lock held: the thread is alive and
\* status() is called (89); or a recording is active and RuntimeError leaves
\* the `with` (90-91); or the thread is started and status() is called (99)
OrchStart(c, recording_active) ==
    /\ orch.calls[c].pc = "start_in"
    /\ orch' =
         IF orch.thread /\ OrchAlive
         THEN [orch EXCEPT !.calls[c].pc = "status"]
         ELSE IF recording_active
         THEN [orch EXCEPT !.lock = 0, !.calls[c] = NoOrchCall]
         ELSE [orch EXCEPT !.stop = FALSE, !.phase = "idle", !.thread = TRUE,
                           !.run = [pc |-> "loop", next |-> "-"],
                           !.calls[c].pc = "status"]
    /\ OrchFrame

\* stop(), lines 102-104: set the stop event, leave the `with`
OrchStopSignal(c) ==
    /\ orch.calls[c].pc = "stop_in"
    /\ orch' = [orch EXCEPT !.stop = TRUE, !.lock = 0, !.calls[c].pc = "stop_join"]
    /\ OrchFrame

\* stop(), lines 106-109: join returns (no thread, the thread has ended,
\* or the 5 seconds are over) and the call is at its second `with`
OrchStopJoin(c) ==
    /\ orch.calls[c].pc = "stop_join"
    /\ orch' = [orch EXCEPT !.calls[c].pc = "stop_again"]
    /\ OrchFrame

\* stop(), lines 110-113, with the lock held: clear the fields and call
\* status()
OrchStopClear(c) ==
    /\ orch.calls[c].pc = "stop_in2"
    /\ orch' = [orch EXCEPT !.thread = FALSE, !.phase = "idle",
                            !.calls[c].pc = "status"]
    /\ OrchFrame

\* the end of a `with` block that only reads or writes the fields: status()
\* returns its OrchestratorStatus (lines 117-125), and so does the start()
\* or stop() that called it; _set_phase has assigned _phase (line 266)
OrchRelease(w) ==
    /\ OrchAt(w) \in {"status_in", "set_phase_in"}
    /\ orch' = IF w = RunId
               THEN [orch EXCEPT !.lock = 0, !.phase = orch.run.next,
                                 !.run = [pc |-> IF orch.run.next = "error"
                                                 THEN "ended" ELSE "loop",
                                          next |-> "-"]]
               ELSE [orch EXCEPT !.lock = 0, !.calls[w] = NoOrchCall]
    /\ OrchFrame

\* the phases _run asks _set_phase for when it reads `phase` (lines 167-236)
OrchNextPhases(phase) ==
    CASE phase = "idle" -> {"armed"}
      [] phase = "armed" -> {"idle", "recording"}
      [] phase = "recording" -> {"stopping", "idle"}
      [] phase = "stopping" -> {"stopping", "idle"}
      [] OTHER -> {}

\* _run at `while not self._stop.is_set()` (line 153): it ends, or a chunk
\* makes it call _set_phase, or an exception does (lines 238-240)
OrchRun ==
    /\ orch.run.pc = "loop"
    /\ \/ orch.stop /\ orch' = [orch EXCEPT !.run.pc = "ended"]
       \/ /\ ~orch.stop
          /\ \E p \in OrchNextPhases(orch.phase) \cup {"error"} :
                orch' = [orch EXCEPT !.run = [pc |-> "set_phase", next |-> p]]
    /\ OrchFrame

\* what a thread that is inside a call does next
OrchStep(c) ==
    \/ OrchAcquire(c)
    \/ \E recording_active \in BOOLEAN : OrchStart(c, recording_active)
    \/ OrchStopSignal(c)
    \/ OrchStopJoin(c)
    \/ OrchStopClear(c)
    \/ OrchRelease(c)

\* the orchestrator thread's steps
OrchThread == OrchRun \/ OrchAcquire(RunId) \/ OrchRelease(RunId)

NextOrch ==
    \/ \E c \in OrchCallers, op \in {"start", "stop", "status"} : OrchCall(c, op)
    \/ \E c \in OrchCallers : OrchStep(c)
    \/ OrchThread

\* every thread runs when it can; nobody has to call
SpecOrch ==
    /\ Init /\ [][NextOrch]_vars
    /\ \A c \in OrchCallers : WF_vars(OrchStep(c))
    /\ WF_vars(OrchThread)

\* =================================================================
\* Properties
\* =================================================================

\* events put on the event queue by the step (start() makes a new queue)
Emitted ==
    IF Len(evq') >= Len(evq) THEN SubSeq(evq', Len(evq) + 1, Len(evq')) ELSE <<>>

\* how many of the events put by the step have the given type
Count(type) == Cardinality({i \in DOMAIN Emitted : Emitted[i].type = type})

\* a call of stop() ends with this step: it returns or it raises
StopEnds == StopNoTask \/ StopRaises \/ StopFinish

\* loops that can still run: tasks that are alive with no cancel() pending
Loops == {t \in Sess : Alive(t) /\ ~tasks[t].creq}

\* subscriptions named "listener" that are open at the hub
Subscriptions == {r \in Sess : readers[r].open}

\* what a failed start_recording must leave alone: the session state, the
\* subscriptions and the capture threads
RecorderState ==
    <<session, recReader, thread, stopEvent, chunks, recCur, recSubs, captures>>

\* C1: the state only ever changes along IDLE -> ARMED, ARMED -> LISTENING,
\* ARMED -> IDLE and LISTENING -> IDLE: LISTENING is never entered from
\* IDLE and ARMED is never entered from LISTENING.
C1_AllowedEdges ==
    [][state' # state =>
          <<state, state'>> \in {<<"IDLE", "ARMED">>, <<"ARMED", "LISTENING">>,
                                 <<"ARMED", "IDLE">>, <<"LISTENING", "IDLE">>}]_vars

\* C2: every LISTENING -> IDLE transition made by the processing loop puts
\* exactly one result or error event on the queue, in every configuration
\* of the service (with or without the storage and STT ports).
C2_OneOutcomePerFinalization ==
    [][\A t \in Sess :
          (TaskStep(t) /\ state = "LISTENING" /\ state' = "IDLE") =>
              Count("result") + Count("error") = 1]_vars

\* C3: whenever a call of stop() ends, no start() having come in between,
\* the state is IDLE, is_listening is false, the session's reader is closed
\* and unreferenced, and both detectors are reset.
C3_StopLeavesIdle ==
    [][(StopEnds /\ ~running') =>
          /\ state' = "IDLE"
          /\ readerRef' = 0 /\ ~readers'[cur].open
          /\ ~wakeDirty' /\ ~vadDirty']_vars

\* C4: a step never puts an event of a session on the event queue after a
\* call of stop() on that session has returned.
C4_NoEventAfterStop ==
    [][\A i \in DOMAIN Emitted : Emitted[i].sess \notin stopped]_vars

\* C5: when wake.detect or vad.process raises, the step that receives the
\* exception puts one error event on the queue, sets the state to IDLE and
\* leaves the loop alive.
C5_DetectorExceptionCaught ==
    [][\A t \in Sess :
          DetectorRaised(t) =>
              /\ Emitted = <<ErrorEv(t)>>
              /\ state' = "IDLE"
              /\ tasks'[t].pc \notin Done]_vars

\* C6: when save_recording or transcribe_recording raises, the step that
\* receives the exception puts exactly one error event and no result event
\* on the queue, sets the state to IDLE, resets both detectors and leaves
\* the loop at its next read (or at its end, once stop() has been called).
C6_FinalizationFailure ==
    [][\A t \in Sess :
          (SaveDone(t, FALSE) \/ SttDone(t, FALSE)) =>
              /\ Count("error") = 1 /\ Count("result") = 0
              /\ state' = "IDLE"
              /\ ~wakeDirty' /\ ~vadDirty'
              /\ tasks'[t].pc = IF running THEN "read" ELSE "finished"]_vars

\* C6 happens: after an error event of a failed finalization the same loop
\* has detected the next wake-word.
C6_Witness ==
    \E t \in Sess : \E i, j \in DOMAIN evq :
        /\ i < j
        /\ evq[i] = ErrorEv(t)
        /\ evq[j] = StateChange(t, "ARMED")

\* C7: at no time are two listener loops or two listener subscriptions
\* alive.
C7_SingleSession ==
    Cardinality(Loops) <= 1 /\ Cardinality(Subscriptions) <= 1

\* C8: a start_recording call returns a session only when there was none,
\* so of the calls that overlap exactly the first to pass the checks returns
\* one; a call fails only when a session is active or the hub is not
\* running, and then it creates no subscription and no capture thread and
\* changes no session state; no two calls are past the checks at a time.
C8_OneStartWins ==
    [][/\ \A c \in Callers :
            /\ StartRecordingReturns(c) =>
                   /\ session = 0 /\ session' # 0
                   /\ recSubs'[session'].open
                   /\ captures'[session'].pc = "begin"
            /\ StartRecordingFails(c) =>
                   /\ session # 0 \/ ~hubRunning
                   /\ UNCHANGED RecorderState
       /\ Cardinality({c \in Callers :
              calls'[c].pc \in {"start_subscribe", "start_thread"}}) <= 1]_vars

\* C8 happens: while the first session is active, made by one thread's
\* call, another thread's start_recording has entered and is about to fail.
C8_Witness ==
    \E c \in Callers :
        /\ calls[c].pc = "start_check"
        /\ session = 1 /\ recCur = 1 /\ hubRunning
        /\ recSubs[1].open /\ captures[1].pc # "none"

\* C9: when an episode is finalized by the hangover rule after the VAD
\* reported nothing in ARMED but the speech_start (on the frame after k
\* frames without event), then nothing on n LISTENING frames, then the
\* speech_end and nothing after it, the utterance handed to finalization
\* has min(pre_roll_max, k) + 1 + n + hangover_max frames.
C9_UtteranceLength ==
    \A t \in Sess :
        (tasks[t].pc = "save" /\ tasks[t].trig = "hangover" /\ tasks[t].eok) =>
            Len(tasks[t].utt) =
                Min(pre_roll_max, Len(tasks[t].seen) - 1) + 1 + tasks[t].en
                    + hangover_max

\* C10: the pre-roll buffer never holds more than pre_roll_max frames once
\* a frame has been handled; at an ARMED -> LISTENING transition the
\* utterance becomes the last min(pre_roll_max, all) frames handled in
\* ARMED in this episode, in arrival order, and the pre-roll is emptied
\* (the buffers of a loop that goes on; they end with the loop).
C10_PreRoll ==
    [][\A t \in Sess :
          /\ Len(tasks'[t].pre) <= pre_roll_max
          /\ (HandleArmedDone(t, "start") /\ Alive(t)') =>
                 /\ tasks'[t].utt =
                        LastN(tasks[t].seen, Min(pre_roll_max, Len(tasks[t].seen)))
                 /\ tasks'[t].pre = <<>>]_vars

\* C11: a frame handled in ARMED more than armed_timeout_seconds after the
\* state became ARMED sets the state to IDLE, resets the wake detector and
\* the VAD, clears the pre-roll, and puts state_change(IDLE) and nothing
\* else on the queue.
C11_ArmedTimeout ==
    [][\A t \in Sess :
          ((HandleArmedTimeout(t) \/ HandleArmedCall(t))
              /\ armedAge > armed_timeout_seconds) =>
              /\ state' = "IDLE"
              /\ ~wakeDirty' /\ ~vadDirty'
              /\ Alive(t)' => tasks'[t].pre = <<>>
              /\ Emitted = <<StateChange(t, "IDLE")>>]_vars

RECURSIVE LastReported(_)
\* the event of the last chunk for which the detector reported one
LastReported(events) ==
    IF events = <<>> THEN "none"
    ELSE IF events[Len(events)] # "none" THEN events[Len(events)]
    ELSE LastReported(SubSeq(events, 1, Len(events) - 1))

\* C12: a call of process() returns speech_end when the detector reported
\* speech_end for any chunk of the call, whatever it reported for later
\* chunks; otherwise the event of the last chunk that had one, or no event.
C12_EndWins ==
    vadPc = "idle" =>
        returned = IF "end" \in Range(chunkEvents) THEN "end"
                   ELSE LastReported(chunkEvents)

\* C12 happens: a call whose chunks had speech_end and then speech_start
\* has returned speech_end.
C12_Witness ==
    /\ vadPc = "idle" /\ returned = "end"
    /\ \E i, j \in DOMAIN chunkEvents :
           i < j /\ chunkEvents[i] = "end" /\ chunkEvents[j] = "start"

RECURSIVE Merged(_)
\* the runs of an array with touching runs joined and empty runs left out
Merged(arr) ==
    IF arr = <<>> THEN <<>>
    ELSE LET r == Head(arr)
             rest == Merged(Tail(arr))
         IN  IF r[2] < r[1] THEN rest
             ELSE IF rest # <<>> /\ rest[1][1] = r[2] + 1
                  THEN <<<<r[1], rest[1][2]>>>> \o Tail(rest)
             ELSE <<r>> \o rest

\* the array holds exactly the samples first..last, in order
Holds(arr, first, last) ==
    Merged(arr) = IF last < first THEN <<>> ELSE <<<<first, last>>>>

\* C13: with N samples fed since the last reset(), in frames of any sizes,
\* the i-th chunk handed to the detector is the i-th slice of
\* SILERO_FRAME_SIZE consecutive samples; the buffer holds exactly the
\* samples fed after the last chunk, in order, and _buffer_samples is their
\* number; after each call floor(N / SILERO_FRAME_SIZE) chunks have been
\* handed over and N mod SILERO_FRAME_SIZE samples are held; after reset()
\* (N = 0) the buffer is empty.
C13_Chunking ==
    LET N == nextSample - firstSample
    IN  /\ \A i \in DOMAIN invoked :
               Holds(invoked[i], firstSample + SILERO_FRAME_SIZE * (i - 1),
                                 firstSample + SILERO_FRAME_SIZE * i - 1)
        /\ Holds(Concatenate(buffer),
                 firstSample + SILERO_FRAME_SIZE * Len(invoked), nextSample - 1)
        /\ buffer_samples = Shape(Concatenate(buffer))
        /\ vadPc = "idle" =>
               /\ Len(invoked) = N \div SILERO_FRAME_SIZE
               /\ buffer_samples = N % SILERO_FRAME_SIZE

\* C13 happens: after a reset() that threw samples away, calls have fed
\* frames so that a chunk was cut from two frames and samples are left over.
C13_Witness ==
    /\ vadPc = "idle" /\ firstSample > 1 /\ firstSample % SILERO_FRAME_SIZE # 1
    /\ Len(invoked) >= 2
    /\ \E i \in DOMAIN invoked : Len(invoked[i]) >= 2
    /\ buffer_samples > 0

\* C14: every step that changes the state, a step of the loop or of stop(),
\* puts a state_change event with the new state on the queue, and a step
\* that leaves the state as it was puts no state_change event.
C14_StateChangeEmitted ==
    [][/\ state' # state =>
              \E i \in DOMAIN Emitted :
                  Emitted[i].type = "state_change" /\ Emitted[i].state = state'
       /\ state' = state =>
              \A i \in DOMAIN Emitted : Emitted[i].type # "state_change"]_vars

\* the iteration of events() by handler c ends with this step
ConsumerEnds(c) == consumers[c].pc # "ended" /\ consumers'[c].pc = "ended"

\* C15: when the iteration of events() by the handler of the current
\* session ends, no result and no error event is left on the queue: each
\* has been yielded to it.
C15_ResultsDelivered ==
    [][\A c \in Sess :
          (ConsumerEnds(c) /\ c = cur) =>
              \A i \in Pending : evq[i].type \notin {"result", "error"}]_vars

\* emission order: an earlier queue, or an earlier place in the same queue
Before(a, b) == a[1] < b[1] \/ (a[1] = b[1] /\ a[2] < b[2])

\* C16: every event yielded to a handler was emitted after the event
\* yielded to that handler before it.
C16_EmissionOrder ==
    [][\A c \in Sess :
          ConsumerGet(c) => Before(consumers[c].last, consumers'[c].last)]_vars

\* C16 happens: a handler holds the third event of its session's queue,
\* having been yielded the two before it.
C16_Witness ==
    \E c \in Sess :
        /\ consumers[c].pc = "send" /\ consumers[c].last = <<c, 3>>
        /\ taken = {1, 2, 3} /\ cur = c

\* C17: when the listener puts a result event on the queue, the recording
\* it persisted for it is in the recorder's registry under its path.
C17_ResultRegistered ==
    [][\A t \in Sess :
          (SttDone(t, TRUE) /\ Count("result") = 1) =>
              tasks[t].persisted \in DOMAIN recordings']_vars

\* C18: when no join() has timed out, a stop_recording that was called on
\* session k, whose thread read a frame, and returns a recording has handed the encoder exactly the frames
\* that thread read, in order; the thread has ended, the session's reader
\* is closed, the recording is in the registry under its path with that
\* audio, and session k is no longer the active one.
C18_StopRecording ==
    [][\A c \in Callers :
          (StopRecordingReturns(c, TRUE) /\ calls[c].chunks # <<>>
              /\ captures[calls[c].sess].got # <<>>
              /\ \A j \in Recs : ~captures[j].late) =>
              LET k == calls[c].sess
              IN  /\ Payload(calls[c].chunks) = Payload(captures[k].got)
                  /\ captures[k].pc = "none"
                  /\ ~recSubs'[k].open
                  /\ paths + 1 \in DOMAIN recordings'
                  /\ recordings'[paths + 1].file = Payload(captures[k].got)
                  /\ session' # k]_vars

\* C19: a stop_recording that finds no session raises and changes nothing:
\* the registry, the session with its thread and reader, the chunk list and
\* the stop flag stay as they were, and no file is written.
C19_StopWithoutSession ==
    [][\A c \in Callers :
          StopRecordingFails(c) =>
              /\ session = 0
              /\ UNCHANGED <<recordings, paths, session, thread, recReader,
                             chunks, stopEvent, recSubs, captures>>]_vars

\* C19 happens: a stop_recording can fail on a recorder that has stored a
\* recording, has no session and has its stop flag set by the earlier stop.
C19_Witness ==
    /\ session = 0 /\ lock = 0 /\ stopEvent
    /\ DOMAIN recordings # {}
    /\ \E c \in Callers : calls[c].pc = "idle"

\* C20: get_recording raises KeyError for an id that is not registered and
\* returns a record equal to the stored one for a registered id; a step of
\* the recorder keeps every registered id with the record it had, so a
\* repeated get_recording returns an equal value; get_recording leaves the
\* registry as it was.
C20_RegistryGrows ==
    [][/\ \A id \in RecordingIds \ DOMAIN recordings :
             GetRecordingResult(recordings, id) = "KeyError"
       /\ \A id \in DOMAIN recordings :
             /\ GetRecordingResult(recordings, id) = recordings[id]
             /\ id \in DOMAIN recordings'
             /\ GetRecordingResult(recordings', id) =
                    GetRecordingResult(recordings, id)
       /\ \A c \in Callers : \A id \in RecordingIds :
             GetRecording(c, id) => UNCHANGED <<recordings, paths>>]_vars

\* C20 happens: two recordings are registered, with different audio, and a
\* caller is free to look them up.
C20_Witness ==
    /\ Cardinality(DOMAIN recordings) = 2
    /\ \E a, b \in DOMAIN recordings : recordings[a].file # recordings[b].file
    /\ \E c \in Callers : calls[c].pc = "idle"

\* C21: POST /stop_recording answers 409 when no session is active and 500
\* when the encoder fails, so the two errors never share a status.
C21_ErrorStatuses ==
    [][\A c \in Callers :
          /\ StopRecordingFails(c) => StopRecordingStatus("not_active") = 409
          /\ StopRecordingReturns(c, FALSE)
                 /\ StopRecordingResult(c, FALSE) = "save_failed"
             => /\ StopRecordingStatus("save_failed") = 500
                /\ StopRecordingStatus("save_failed") #
                       StopRecordingStatus("not_active")]_vars

\* C22: a stop message sent on a connection after its start command
\* succeeded is in the end received and answered by the handler: with
\* state_change STOPPED after it stopped the listener, or, when the listener
\* was stopped by someone else in between, with an error event (or the
\* handler's stop() raised).
C22_StopProcessed ==
    \A c \in Sess :
        consumers[c].inbox ~>
            \/ consumers[c].reply \in {"STOPPED", "error"}
            \/ consumers[c].pc = "raised"

\* C23: the frames a subscriber's reader has returned are in strictly
\* increasing sequence order: of any two, the one with the smaller sequence
\* number was returned first, and none was returned twice.
C23_SequenceOrder ==
    \A k \in Subs :
        LET got == hubSubs[k].got
        IN  \A i, j \in DOMAIN got : i < j <=> got[i] < got[j]

\* C23 happens: a subscriber has read three frames with a gap among them,
\* while a fan-out is under way.
C23_Witness ==
    \E k \in Subs :
        LET got == hubSubs[k].got
        IN  /\ Len(got) >= 3
            /\ \E i \in 1..(Len(got) - 1) : got[i + 1] > got[i] + 1
            /\ Locked

\* the frames from..to, in order
Run(from, to) == [i \in 1..(to - from + 1) |-> from + i - 1]

\* C24: a subscriber's queue never holds more than its max_frames frames,
\* and it holds the newest frames the subscriber was offered; an offer to a
\* full queue discards exactly the oldest frame and admits the new one; an
\* offer can always be made, whatever the queue holds.
C24_DropOldest ==
    /\ [](\A k \in Subs :
             LET me == hubSubs[k]
             IN  /\ Len(me.queue) <= me.max_frames
                 /\ me.queue = Run(me.last - Len(me.queue) + 1, me.last)
                 /\ k \in fanout => ENABLED HubOffer(k))
    /\ [][\A k \in Subs :
             HubOffer(k) /\ Len(hubSubs[k].queue) = hubSubs[k].max_frames
             => hubSubs'[k].queue = Append(Tail(hubSubs[k].queue), hubSeq)]_vars

\* C24 happens: a subscriber with room for two frames has lost two and its
\* queue is full.
C24_Witness ==
    \E k \in Subs :
        /\ hubSubs[k].max_frames = 2
        /\ hubSubs[k].drops >= 2
        /\ Len(hubSubs[k].queue) = 2

\* C25: a subscriber still on the hub's list whose own queue never
\* overflowed has been given, by its
\* reads and in its queue, every frame offered to it since it subscribed, in
\* production order and with no gap, whatever the other subscribers hold or
\* have lost.
C25_Isolation ==
    \A k \in Subs :
        hubSubs[k].st \in {"live", "closed"} /\ hubSubs[k].drops = 0 =>
            hubSubs[k].got \o hubSubs[k].queue =
                Run(hubSubs[k].since + 1, hubSubs[k].last)

\* C25 happens: one subscriber has read nothing and lost frames, the other
\* has a queue of one frame, lost nothing and has read four frames.
C25_Witness ==
    \E k, j \in Subs :
        /\ hubSubs[j].st = "live" /\ hubSubs[j].got = <<>> /\ hubSubs[j].drops >= 2
        /\ hubSubs[k].st = "live" /\ hubSubs[k].max_frames = 1
        /\ hubSubs[k].drops = 0 /\ Len(hubSubs[k].got) >= 4

\* the ndarray does not fit recording.channels
ChannelMismatch(rec) ==
    \/ Len(rec.data) = 1 /\ rec.channels # 1
    \/ Len(rec.data) = 2 /\ rec.data[1] # rec.channels /\ rec.data[2] # rec.channels

\* C26: a save_recording that returns leaves the recording with its path set
\* and its data released; it raises when the encoder exits non-zero, when
\* the recording has no data and when the channels do not match, and a
\* save_recording that raises leaves the recording as it was: a path that
\* was unset is unset, data that was present is present.
C26_SaveRecording ==
    [][\A proc \in ProcOutcomes :
          CallSaveRecording(proc) =>
              /\ raised' = "None" =>
                     recording'.path # 0 /\ recording'.data = NoData
              /\ proc = "1" \/ recording.data = NoData \/ ChannelMismatch(recording)
                     => raised' # "None"
              /\ raised' # "None" =>
                     /\ recording' = recording
                     /\ recording.path = 0 => recording'.path = 0
                     /\ recording.data # NoData => recording'.data # NoData]_vars

\* C26 happens: after one save_recording that returned, another, on a new
\* recording with data that fits and no path, has failed with the encoder's
\* RuntimeError.
C26_Witness ==
    /\ paths >= 1
    /\ raised = "RuntimeError"
    /\ prior.made /\ prior.path = 0 /\ prior.data # NoData
    /\ recording = prior

\* C27: a Recording that exists has data or a path; making one with neither
\* raises and makes no object; clear_data on a recording without a path
\* raises and leaves the recording, its data included, as it was.
C27_DataOrPath ==
    /\ [](recording.made => recording.data # NoData \/ recording.path # 0)
    /\ [][/\ \A channels \in 1..2 :
                 NewRecording(NoData, 0, channels) =>
                     raised' = "ValueError" /\ ~recording'.made
          /\ CallClearData /\ recording.path = 0 =>
                 raised' = "ValueError" /\ recording' = recording]_vars

\* C27 happens: clear_data has raised on a recording that has no path and
\* whose data save_recording would have accepted.
C27_Witness ==
    /\ raised = "ValueError"
    /\ prior.made /\ prior.path = 0
    /\ Len(prior.data) \in 1..2 /\ ~ChannelMismatch(prior)
    /\ recording = prior

\* a worker thread is inside a method of detector d
Inside(d) == \E t \in Sess : <<d, t>> \in orphans

\* C28: no method of a detector is called while another thread is inside a
\* method of the same detector: not wake.reset() by stop() nor wake.detect
\* by the loop while a worker thread is in wake.detect, and not vad.reset()
\* by stop() nor vad.process by the loop while a worker thread is in
\* vad.process.
C28_DetectorsExclusive ==
    [][/\ StopNoTask \/ StopFinish \/ (\E t \in Sess : HandleIdleCall(t))
             => ~Inside("wake")
       /\ StopNoTask \/ StopFinish
             \/ (\E t \in Sess : HandleArmedCall(t) \/ HandleListeningCall(t))
             => ~Inside("vad")]_vars

\* q is an integer nearest to n / d
Nearest(q, n, d) == 2 * (q * d - n) <= d /\ 2 * (n - q * d) <= d

\* C29: the buffer sizes are the settings times the frame rate rounded to
\* the nearest integer: pre_roll_max = max(1, round(pad_ms/1000 * fps) + 5),
\* hangover_max = max(1, round(hangover_ms/1000 * fps)) and
\* max_utterance_frames = round(seconds * fps).
C29_RoundedSizes ==
    sizes # NoSizes =>
        LET d == 1000 * sizes.blocksize
        IN  /\ \E q \in 0..100 :
                 /\ Nearest(q, sizes.pad_ms * sizes.sample_rate, d)
                 /\ sizes.pre = Max(1, q + 5)
            /\ \E q \in 0..100 :
                 /\ Nearest(q, sizes.hangover_ms * sizes.sample_rate, d)
                 /\ sizes.hang = Max(1, q)
            /\ \E q \in 0..2000 :
                 /\ Nearest(q, sizes.seconds * sizes.sample_rate, sizes.blocksize)
                 /\ sizes.utt = q

\* C30: the frames handed to _process_utterance are in strictly increasing
\* sequence order, so none of them is there twice.
C30_UtteranceFramesOnce ==
    \A t \in Sess :
        tasks[t].pc \in {"save", "stt"} =>
            \A i, j \in DOMAIN tasks[t].utt :
                i < j => tasks[t].utt[i] < tasks[t].utt[j]

\* C31: while a loop of the listener waits for its next frame and the state
\* is IDLE or ARMED, its utterance buffer and its hangover buffer are empty
\* and its speech_ended flag is False.
C31_BuffersEmptyOutsideListening ==
    \A t \in Sess :
        (tasks[t].pc = "read" /\ ~tasks[t].creq /\ state \in {"IDLE", "ARMED"}) =>
            /\ tasks[t].utt = <<>>
            /\ tasks[t].hang = <<>>
            /\ ~tasks[t].ended

\* C32: a result or error event is emitted only while the state is
\* LISTENING, and the same step emits state_change(IDLE) directly after it.
C32_OutcomeThenIdle ==
    [][\A i \in DOMAIN Emitted :
          Emitted[i].type \in {"result", "error"} =>
              /\ state = "LISTENING"
              /\ i < Len(Emitted)
              /\ Emitted[i + 1].type = "state_change"
              /\ Emitted[i + 1].state = "IDLE"]_vars

\* loop t handles a frame in LISTENING in this step
HandlesListeningFrame(t) ==
    /\ tasks[t].pc = "read" /\ tasks[t].frame # 0 /\ ~tasks[t].creq
    /\ state = "LISTENING"
    /\ tasks'[t].pc # "read" \/ tasks'[t].frame # tasks[t].frame

C34_UtteranceBounded ==
    \A t \in Sess :
        tasks[t].pc \in {"save", "stt"} =>
            Len(tasks[t].utt) <= max_utterance_frames

\* C35: once speech_ended is set, every further frame whose VAD call
\* returns is added to the hangover frames collected so far, whatever the
\* VAD reported for it, and the utterance is finalized exactly when
\* hangover_max of them are collected.
C35_HangoverNotRestarted ==
    [][\A t \in Sess :
          (/\ tasks[t].pc = "vadL" /\ tasks[t].ended /\ ~tasks[t].creq
           /\ tasks'[t].pc \notin {"vadL", "failed"}) =>
              \/ /\ tasks'[t].hang = Append(tasks[t].hang, tasks[t].frame)
                 /\ tasks'[t].pc = "save" <=> Len(tasks'[t].hang) >= hangover_max
              \/ ~hasPorts /\ state' = "IDLE"]_vars

\* C36: while frames wait for the listener and the clock advances, the
\* state ARMED is left for LISTENING or IDLE.
C36_ArmedEnds ==
    (state = "ARMED") ~> (state \in {"LISTENING", "IDLE"} \/ ~FrameWaits)

\* C37: a stop_recording call that reaches its second locked block clears
\* the session it found in its first one (or finds it cleared by now),
\* never a session that was started in between.
C37_StopEndsOwnSession ==
    [][\A c \in Callers :
          (calls[c].pc = "stop_clear" /\ calls'[c].pc = "stop_close") =>
              session \in {0, calls[c].sess}]_vars

\* stop_recording of thread c ends in this step by raising: there were no
\* chunks, or save_recording raised
StopRecordingRaised(c) ==
    \E saved \in BOOLEAN :
        /\ StopRecordingReturns(c, saved)
        /\ StopRecordingResult(c, saved) # "recording"

\* C38: when no join() has timed out and a stop_recording that was called
\* on session k raises for want of audio or because the encoder failed,
\* session k is not the active one, its reader is closed and its capture
\* thread has ended, the registry and the files are as before, none of the
\* thread's frames is kept in _chunks, and a start_recording that finds the
\* lock free passes its checks unless someone else has started a session.
C38_FailedStopEndsSession ==
    [][\A c \in Callers :
          (StopRecordingRaised(c) /\ \A j \in Recs : ~captures[j].late) =>
              LET k == calls[c].sess
              IN  /\ session' # k
                  /\ ~recSubs'[k].open
                  /\ captures'[k].pc = "none"
                  /\ recordings' = recordings /\ paths' = paths
                  /\ Range(captures'[k].got) \cap Range(chunks') = {}
                  /\ session' = 0 \/ session' > k]_vars

\* C38 happens: the encoder raised for session 1, whose thread had captured
\* frames; nothing was stored, and a second session has been started
C38_Witness ==
    /\ session = 2 /\ paths = 0 /\ recordings = <<>>
    /\ captures[1].got # <<>> /\ captures[1].pc = "none" /\ ~captures[1].late
    /\ ~recSubs[1].open
    /\ \A c \in Callers : calls[c].pc = "idle"

\* C39: start() leaves the state IDLE and a new, empty event queue, the
\* loop it creates has empty pre-roll, utterance and hangover buffers and
\* no arming time, and no utterance handed to _process_utterance holds a
\* frame that its loop had read before the last start().
C39_FreshSession ==
    [][/\ StartAs(MaxSessFresh) =>
            /\ state' = "IDLE" /\ evq' = <<>>
            /\ Held(tasks'[cur']) = {}
            /\ tasks'[cur'].armedFor = -1 /\ ~tasks'[cur'].ended
       /\ \A t \in Sess :
            (tasks[t].pc # "save" /\ tasks'[t].pc = "save") =>
                Range(tasks'[t].utt) \cap tasks[t].carried = {}]_vars

\* C40: a thread that has called start() or stop() comes back from the
\* call, and the orchestrator thread comes back from _set_phase.
C40_OrchestratorReturns ==
    /\ \A c \in OrchCallers :
          (orch.calls[c].op \in {"start", "stop"}) ~> (orch.calls[c].op = "-")
    /\ (orch.run.pc = "set_phase") ~> (orch.run.pc # "set_phase")

====
